---- MODULE Spec2Model ----
(***************************************************************************)
(* Balancio backend: budget tracking, budget alert de-duplication and      *)
(* monthly report aggregation.                                             *)
(*                                                                         *)
(* Time is an integer number of ticks since 1970-01-01T00:00 local time;   *)
(* a day has TicksPerDay ticks, tick 0 of a day is 00:00:00.000 and the    *)
(* last tick of a day is 23:59:59.999.  The calendar functions follow the  *)
(* ECMAScript Date algorithms (local zone without daylight saving).        *)
(* Money amounts are integers and percentages are exact rationals (the     *)
(* code computes them in IEEE doubles); a percentage rounded to two        *)
(* decimals is given in hundredths of a percent.  An optional Date field   *)
(* of a stored document is <<>> when absent and <<t>> when set.            *)
(***************************************************************************)
EXTENDS Integers, Sequences, FiniteSets, Bags, TLC

VARIABLES
    now,            \* the wall clock (new Date())
    users,          \* User collection: userId -> document
    transactions,   \* Transaction collection, in insertion order
    call,           \* in-flight checkAndSendBudgetAlert invocations
    overlap,        \* may invocations for one user overlap in this run
    alertEmails,    \* bag of budget alert e-mails handed to the transporter
    notifications,  \* Notification collection: documents per user
    calcOut,        \* result of a direct getMonthlyExpenses/checkBudgetStatus
    reportOut,      \* result of a direct getUserReportData / report request
    categories,     \* Category collection
    batch,          \* the generateMonthlyReports run in progress
    reportEmails    \* monthly report e-mails handed to the transporter

vars == <<now, users, transactions, call, overlap, alertEmails,
          notifications, calcOut, reportOut, categories, batch, reportEmails>>

----------------------------------------------------------------------------
(* Bounds *)

MaxTx == 2
MaxEmails == 2

----------------------------------------------------------------------------
(* ECMAScript Date arithmetic *)

\* the instants of a day the model tells apart: 00:00:00.000, the time of day
\* of new Date(y, m, d), and 23:59:59.999
DayInstants == {"00:00:00.000", "23:59:59.999"}

TicksPerDay == Cardinality(DayInstants)

IsLeap(y) == (y % 4 = 0 /\ y % 100 # 0) \/ y % 400 = 0

DaysInYear(y) == IF IsLeap(y) THEN 366 ELSE 365

DaysInMonth(y, m) ==
    IF m = 1 THEN (IF IsLeap(y) THEN 29 ELSE 28)
    ELSE IF m \in {3, 5, 8, 10} THEN 30 ELSE 31

\* number of the first day of year y, counted from 1970-01-01
DayFromYear(y) ==
    365 * (y - 1970) + ((y - 1969) \div 4) - ((y - 1901) \div 100)
        + ((y - 1601) \div 400)

RECURSIVE DaysBeforeMonth(_, _)
DaysBeforeMonth(y, m) ==
    IF m = 0 THEN 0 ELSE DaysBeforeMonth(y, m - 1) + DaysInMonth(y, m - 1)

\* MakeDay: month and day may lie outside their ranges and are normalised
MakeDay(year, month, date) ==
    LET ym == year + (month \div 12)
        mn == month % 12
    IN  DayFromYear(ym) + DaysBeforeMonth(ym, mn) + date - 1

\* new Date(year, month, date) and new Date(year, month, date, h, m, s, ms)
\* with the time of day given in ticks
MakeDate(year, month, date, tod) == MakeDay(year, month, date) * TicksPerDay + tod

Day(t) == t \div TicksPerDay

TimeWithinDay(t) == t % TicksPerDay

YearFromDay(d) ==
    CHOOSE y \in (1970 + (d \div 366))..(1970 + (d \div 365)) :
        DayFromYear(y) <= d /\ d < DayFromYear(y + 1)

getFullYear(t) == YearFromDay(Day(t))

getMonth(t) ==
    LET y == getFullYear(t)
        dwy == Day(t) - DayFromYear(y)
    IN  CHOOSE m \in 0..11 :
            DaysBeforeMonth(y, m) <= dwy /\ dwy < DaysBeforeMonth(y, m) + DaysInMonth(y, m)

getDate(t) ==
    LET y == getFullYear(t)
    IN  Day(t) - DayFromYear(y) - DaysBeforeMonth(y, getMonth(t)) + 1

WeekDay(t) == (Day(t) + 4) % 7

\* Date.prototype.toDateString: "Wed Jan 31 2024" as its four parts
toDateString(t) == <<WeekDay(t), getMonth(t), getDate(t), getFullYear(t)>>

\* Date.prototype.setMonth(m) on date t: the day of month and the time of
\* day are kept and the result is normalised by MakeDay
setMonth(t, m) == MakeDate(getFullYear(t), m, getDate(t), TimeWithinDay(t))

----------------------------------------------------------------------------
(* Stored documents *)

Users == {"u1", "u2"}

AlertTypes == {"warning", "critical"}

\* userSchema defaults
DefaultThresholds == [warning |-> 80, critical |-> 95]

NoAlertSent == [warning |-> <<>>, critical |-> <<>>]

UserDoc(amount, thresholds, lastAlertSent, budgetAlerts) ==
    [monthlyBudget |-> [amount |-> amount,
                        alertThresholds |-> thresholds,
                        lastAlertSent |-> lastAlertSent],
     settings |-> [budgetAlerts |-> budgetAlerts, monthlyReports |-> <<TRUE>>]]

\* Category documents: _id is the hex string of the ObjectId
CategoryDoc(id, userId, name) == [_id |-> id, userId |-> userId, name |-> name]

\* the stored Category collection, in insertion order
StoredCategories ==
    <<CategoryDoc("c1", "u1", "Food"), CategoryDoc("c2", "u1", "Rent"),
      CategoryDoc("c3", "u1", "Fun"), CategoryDoc("c4", "u1", "Travel"),
      CategoryDoc("c5", "u2", "Food")>>

\* no direct call of a read-only operation was made yet
NoOut == [op |-> "none"]

\* generateMonthlyReports has not been triggered
NoBatch ==
    [pc |-> "idle",
     selected |-> <<>>,      \* the users array returned by User.find
     queue |-> <<>>,         \* the users the for loop has not reached yet
     user |-> "none",        \* the user of the iteration in progress
     reportData |-> [hasData |-> FALSE],
     failure |-> "none",     \* what threw inside the inner try block
     aborted |-> FALSE,      \* the outer catch block was entered
     log |-> <<>>]           \* the finished iterations, for the properties

Tx(userId, amount, type, date) ==
    [userId |-> userId, amount |-> amount, type |-> type, date |-> date,
     categoryId |-> <<>>]

\* a user document whose settings.monthlyReports path is true, false or
\* absent (a document older than the path)
WithMonthlyReports(user, setting) ==
    [user EXCEPT !.settings.monthlyReports = setting]

\* a transaction created with a categoryId in the body
WithCategory(t, categoryId) == [t EXCEPT !.categoryId = <<categoryId>>]

----------------------------------------------------------------------------
(* budgetTrackingService *)

RECURSIVE SelectTxAnyType(_, _, _, _)
\* variant of SelectTx: the $match stage lacks the type condition
SelectTxAnyType(txs, userId, startDate, endDate) ==
    IF txs = <<>> THEN <<>>
    ELSE LET t == Head(txs)
             rest == SelectTxAnyType(Tail(txs), userId, startDate, endDate)
         IN  IF /\ t.userId = userId
                /\ t.date >= startDate
                /\ t.date <= endDate
             THEN <<t>> \o rest ELSE rest

RECURSIVE SelectTx(_, _, _, _)
\* $match stage of getMonthlyExpenses: the documents of txs with the given
\* owner, of type 'expense', dated within [startDate, endDate]
SelectTx(txs, userId, startDate, endDate) ==
    IF txs = <<>> THEN <<>>
    ELSE LET t == Head(txs)
             rest == SelectTx(Tail(txs), userId, startDate, endDate)
         IN  IF /\ t.userId = userId
                /\ t.type = "expense"
                /\ t.date >= startDate
                /\ t.date <= endDate
             THEN <<t>> \o rest ELSE rest

RECURSIVE SumAmount(_)
\* $sum: '$amount'
SumAmount(txs) == IF txs = <<>> THEN 0 ELSE Head(txs).amount + SumAmount(Tail(txs))

\* a || b on numbers: 0 (like null and undefined) is falsy
OrElse(a, b) == IF a = 0 THEN b ELSE a

\* first half of getMonthlyExpenses: the target month and its period,
\* decided from the clock when the call starts
ExpensePeriod(month, year, nowT) ==
    LET targetMonth == OrElse(month, getMonth(nowT) + 1)
        targetYear == OrElse(year, getFullYear(nowT))
    IN  [month |-> targetMonth,
         year |-> targetYear,
         startDate |-> MakeDate(targetYear, targetMonth - 1, 1, 0),
         endDate |-> MakeDate(targetYear, targetMonth, 0, TicksPerDay - 1)]

\* second half of getMonthlyExpenses: the aggregate and the result object
MonthlyExpenses(txs, userId, period) ==
    LET expenses == SelectTx(txs, userId, period.startDate, period.endDate)
    IN  [month |-> period.month,
         year |-> period.year,
         totalExpenses |-> SumAmount(expenses),
         transactionCount |-> Len(expenses),
         transactions |-> expenses,
         period |-> [startDate |-> period.startDate, endDate |-> period.endDate]]

getMonthlyExpenses(txs, userId, month, year, nowT) ==
    MonthlyExpenses(txs, userId, ExpensePeriod(month, year, nowT))

\* variant of isNewDay: an elapsed-time test (a rolling window of one day)
isNewDayElapsed(lastAlert, nowT) ==
    IF lastAlert = <<>> THEN TRUE
    ELSE nowT - lastAlert[1] >= TicksPerDay

\* isNewDay closure of checkBudgetStatus
isNewDay(lastAlert, nowT) ==
    IF lastAlert = <<>> THEN TRUE
    ELSE toDateString(nowT) # toDateString(lastAlert[1])

\* percentageUsed >= threshold, with percentageUsed = (spent / budget) * 100
\* taken exactly (budget > 0)
PercentageAtLeast(spent, budget, threshold) == spent * 100 >= threshold * budget

\* variant of AlertDecision: the warning threshold is tested first
AlertDecisionWarningFirst(spent, budget, thresholds, lastAlertSent) ==
    IF PercentageAtLeast(spent, budget, thresholds.warning)
    THEN [alertLevel |-> "warning", lastAlert |-> lastAlertSent.warning]
    ELSE IF PercentageAtLeast(spent, budget, thresholds.critical)
    THEN [alertLevel |-> "critical", lastAlert |-> lastAlertSent.critical]
    ELSE [alertLevel |-> "safe", lastAlert |-> <<>>]

\* variant of AlertDecision: the critical level is de-duplicated against the
\* warning timestamp as well
AlertDecisionSharedStamp(spent, budget, thresholds, lastAlertSent) ==
    IF PercentageAtLeast(spent, budget, thresholds.critical)
    THEN [alertLevel |-> "critical",
          lastAlert |-> IF lastAlertSent.warning # <<>> THEN lastAlertSent.warning
                        ELSE lastAlertSent.critical]
    ELSE IF PercentageAtLeast(spent, budget, thresholds.warning)
    THEN [alertLevel |-> "warning", lastAlert |-> lastAlertSent.warning]
    ELSE [alertLevel |-> "safe", lastAlert |-> <<>>]

\* the if / else-if chain of checkBudgetStatus: the level and the timestamp
\* the level is de-duplicated against
AlertDecision(spent, budget, thresholds, lastAlertSent) ==
    IF PercentageAtLeast(spent, budget, thresholds.critical)
    THEN [alertLevel |-> "critical", lastAlert |-> lastAlertSent.critical]
    ELSE IF PercentageAtLeast(spent, budget, thresholds.warning)
    THEN [alertLevel |-> "warning", lastAlert |-> lastAlertSent.warning]
    ELSE [alertLevel |-> "safe", lastAlert |-> <<>>]

\* variant of MathRound: truncation (Math.floor)
MathFloor(num, den) == num \div den

\* Math.round(x) for x = num / den with den > 0: floor(x + 1/2)
MathRound(num, den) == (2 * num + den) \div (2 * den)

\* Math.max
Max(a, b) == IF a >= b THEN a ELSE b

\* Math.round(percentageUsed * 100) / 100, given in hundredths of a percent
RoundedPercentage(spent, budget) == MathRound(spent * 100 * 100, budget)

NoBudget == [budgetSet |-> FALSE]

\* the guard of checkBudgetStatus on the loaded user document
HasBudget(user) == user.monthlyBudget.amount # 0

\* checkBudgetStatus after the user and the monthly expenses were loaded
BudgetStatus(user, monthlyData, nowT) ==
    LET budget == user.monthlyBudget.amount
        spent == monthlyData.totalExpenses
        thresholds == user.monthlyBudget.alertThresholds
        decision == AlertDecision(spent, budget, thresholds,
                                  user.monthlyBudget.lastAlertSent)
        send == decision.alertLevel # "safe" /\ isNewDay(decision.lastAlert, nowT)
    IN  [budgetSet |-> TRUE,
         budget |-> budget,
         spent |-> spent,
         remaining |-> Max(0, budget - spent),
         percentageUsed |-> RoundedPercentage(spent, budget),
         alertLevel |-> decision.alertLevel,
         shouldSendAlert |-> send,
         alertType |-> IF send THEN decision.alertLevel ELSE "null",
         thresholds |-> thresholds,
         monthlyData |-> monthlyData]

\* checkBudgetStatus run without interruption
checkBudgetStatus(txs, user, userId, nowT) ==
    IF ~HasBudget(user) THEN NoBudget
    ELSE BudgetStatus(user, getMonthlyExpenses(txs, userId, 0, 0, nowT), nowT)

\* User.findById: null (<<>>) when no document has the identifier
findById(us, userId) == IF userId \in DOMAIN us THEN <<us[userId]>> ELSE <<>>

\* checkBudgetStatus(userId) from its first line: the lookup of the user and
\* the guard on its outcome
checkBudgetStatusOf(txs, us, userId, nowT) ==
    LET found == findById(us, userId)
    IN  IF found = <<>> THEN NoBudget
        ELSE checkBudgetStatus(txs, found[1], userId, nowT)

----------------------------------------------------------------------------
(* budgetAlertService.checkAndSendBudgetAlert, one step per await *)

Procs == 1..2

NoResult == [success |-> FALSE, alertSent |-> FALSE, alertType |-> "null",
             reason |-> "pending"]

IdleCall ==
    [pc |-> "idle",
     userId |-> "none",
     user |-> UserDoc(0, DefaultThresholds, NoAlertSent, FALSE),
     statusUser |-> UserDoc(0, DefaultThresholds, NoAlertSent, FALSE),
     statusNow |-> 0,
     period |-> ExpensePeriod(1, 1970, 0),
     budgetStatus |-> NoBudget,
     queried |-> FALSE,
     emailed |-> FALSE,
     wrote |-> FALSE,
     lastAtStart |-> NoAlertSent,
     result |-> NoResult]

Busy(c) == c.pc # "idle"

\* no invocation has returned to a caller that has not yet resumed: the
\* caller's continuation runs before the event loop takes any other event
NoneReturning == \A q \in Procs : call[q].pc # "done"

\* the invocation returns the given object
Return(c, success, alertSent, alertType, reason) ==
    [c EXCEPT !.pc = "done",
              !.result = [success |-> success, alertSent |-> alertSent,
                          alertType |-> alertType, reason |-> reason]]

\* the outer catch block of checkAndSendBudgetAlert
Catch(c) == Return(c, FALSE, FALSE, "null", "error")

\* a new invocation may start in slot p
CanStart(p) ==
    /\ ~Busy(call[p])
    /\ \A q \in Procs : q < p => Busy(call[q])
    /\ overlap \/ \A q \in Procs : ~Busy(call[q])
    /\ NoneReturning
    /\ BagCardinality(alertEmails) < MaxEmails

\* an identifier that no stored user has
MissingUser == "u0"

Started(p, userId) ==
    [call EXCEPT ![p] = [IdleCall EXCEPT
        !.pc = "findUser",
        !.userId = userId,
        !.lastAtStart = IF findById(users, userId) = <<>> THEN NoAlertSent
                        ELSE users[userId].monthlyBudget.lastAlertSent]]

\* checkAndSendBudgetAlert(userId) is invoked directly (budget check routes,
\* checkAllUserBudgets)
StartCheck(p, userId) ==
    /\ CanStart(p)
    /\ call' = Started(p, userId)
    /\ UNCHANGED <<now, users, transactions, overlap, alertEmails,
                   notifications, calcOut, reportOut,
                   categories, batch, reportEmails>>

\* variant of FindUser: the budgetAlerts setting is not looked at
FindUserIgnoresSetting(p) ==
    LET c == call[p] IN
    /\ c.pc = "findUser"
    /\ \/ call' = [call EXCEPT ![p] = Catch(c)]
       \/ call' = [call EXCEPT ![p] = [c EXCEPT !.user = users[c.userId],
                                                !.pc = "statusFindUser"]]
    /\ UNCHANGED <<now, users, transactions, overlap, alertEmails,
                   notifications, calcOut, reportOut, categories, batch,
                   reportEmails>>

\* User.findById and the budgetAlerts setting
FindUser(p) ==
    LET c == call[p] IN
    /\ c.pc = "findUser"
    /\ \/ call' = [call EXCEPT ![p] = Catch(c)]
       \/ LET found == findById(users, c.userId) IN
          call' = [call EXCEPT ![p] =
              IF found = <<>>
              THEN Return(c, FALSE, FALSE, "null", "User not found")
              ELSE IF ~found[1].settings.budgetAlerts
              THEN Return([c EXCEPT !.user = found[1]], TRUE, FALSE, "null",
                          "disabled")
              ELSE [c EXCEPT !.user = found[1], !.pc = "statusFindUser"]]
    /\ UNCHANGED <<now, users, transactions, overlap, alertEmails,
                   notifications, calcOut, reportOut,
                   categories, batch, reportEmails>>

\* variant of StatusFindUser: the monthly expenses are requested before the
\* budget guard is evaluated
StatusFindUserQueriesFirst(p) ==
    LET c == call[p] IN
    /\ c.pc = "statusFindUser"
    /\ \/ call' = [call EXCEPT ![p] = Catch(c)]
       \/ LET user == users[c.userId]
              d == [c EXCEPT !.statusUser = user, !.queried = TRUE]
          IN  call' = [call EXCEPT ![p] =
                  IF ~HasBudget(user)
                  THEN Return([d EXCEPT !.budgetStatus = NoBudget],
                              TRUE, FALSE, "null", "noBudget")
                  ELSE [d EXCEPT !.pc = "getExpenses"]]
    /\ UNCHANGED <<now, users, transactions, overlap, alertEmails,
                   notifications, calcOut, reportOut,
                   categories, batch, reportEmails>>

\* the invocation is between the read of lastAlertSent and its write
BetweenReadAndWrite(c) ==
    c.pc \in {"getExpenses", "aggregate", "sendEmail", "updateLastAlertSent"}

\* variant of StatusFindUser: the user document is read only while no other
\* invocation for the same user is between its read and its write
StatusFindUserExclusive(p) ==
    LET c == call[p] IN
    /\ c.pc = "statusFindUser"
    /\ \A q \in Procs \ {p} :
           ~(call[q].userId = c.userId /\ BetweenReadAndWrite(call[q]))
    /\ \/ call' = [call EXCEPT ![p] = Catch(c)]
       \/ LET user == users[c.userId] IN
          call' = [call EXCEPT ![p] =
              IF ~HasBudget(user)
              THEN Return([c EXCEPT !.statusUser = user, !.budgetStatus = NoBudget],
                          TRUE, FALSE, "null", "noBudget")
              ELSE [c EXCEPT !.statusUser = user, !.pc = "getExpenses"]]
    /\ UNCHANGED <<now, users, transactions, overlap, alertEmails,
                   notifications, calcOut, reportOut, categories, batch,
                   reportEmails>>

\* checkBudgetStatus: User.findById and the budget guard
StatusFindUser(p) ==
    LET c == call[p] IN
    /\ c.pc = "statusFindUser"
    /\ \/ call' = [call EXCEPT ![p] = Catch(c)]
       \/ LET user == users[c.userId] IN
          call' = [call EXCEPT ![p] =
              IF ~HasBudget(user)
              THEN Return([c EXCEPT !.statusUser = user, !.budgetStatus = NoBudget],
                          TRUE, FALSE, "null", "noBudget")
              ELSE [c EXCEPT !.statusUser = user, !.pc = "getExpenses"]]
    /\ UNCHANGED <<now, users, transactions, overlap, alertEmails,
                   notifications, calcOut, reportOut,
                   categories, batch, reportEmails>>

\* getMonthlyExpenses is entered: the period is fixed and the aggregate issued
GetExpenses(p) ==
    LET c == call[p] IN
    /\ c.pc = "getExpenses"
    /\ call' = [call EXCEPT ![p] = [c EXCEPT !.period = ExpensePeriod(0, 0, now),
                                             !.queried = TRUE,
                                             !.pc = "aggregate"]]
    /\ UNCHANGED <<now, users, transactions, overlap, alertEmails,
                   notifications, calcOut, reportOut,
                   categories, batch, reportEmails>>

\* the aggregate answers; checkBudgetStatus computes its result and
\* checkAndSendBudgetAlert looks at shouldSendAlert
Aggregate(p) ==
    LET c == call[p] IN
    /\ c.pc = "aggregate"
    /\ \/ call' = [call EXCEPT ![p] = Catch(c)]
       \/ LET monthlyData == MonthlyExpenses(transactions, c.userId, c.period)
              status == BudgetStatus(c.statusUser, monthlyData, now)
              d == [c EXCEPT !.budgetStatus = status, !.statusNow = now]
          IN  call' = [call EXCEPT ![p] =
                  IF ~status.shouldSendAlert
                  THEN Return(d, TRUE, FALSE, "null", "noAlert")
                  ELSE [d EXCEPT !.pc = "sendEmail"]]
    /\ UNCHANGED <<now, users, transactions, overlap, alertEmails,
                   notifications, calcOut, reportOut,
                   categories, batch, reportEmails>>

\* variant of LastAlertWritten: the whole lastAlertSent sub-document is
\* replaced
LastAlertWrittenWhole(user, alertType, nowT) ==
    [user EXCEPT !.monthlyBudget.lastAlertSent =
        [NoAlertSent EXCEPT ![alertType] = <<nowT>>]]

\* the update document of updateLastAlertSent applied to the stored user
LastAlertWritten(user, alertType, nowT) ==
    [user EXCEPT !.monthlyBudget.lastAlertSent[alertType] = <<nowT>>]

\* variant of SendEmail: the timestamp is recorded before the outcome of the
\* dispatch is known
SendEmailStampsFirst(p) ==
    LET c == call[p] IN
    /\ c.pc = "sendEmail"
    /\ users' = [users EXCEPT ![c.userId] =
           LastAlertWritten(@, c.budgetStatus.alertType, now)]
    /\ \/ /\ alertEmails' = alertEmails (+)
                SetToBag({[to |-> c.userId, alertType |-> c.budgetStatus.alertType,
                           at |-> now]})
          /\ call' = [call EXCEPT ![p] = [c EXCEPT !.emailed = TRUE,
                                                   !.pc = "updateLastAlertSent"]]
       \/ /\ call' = [call EXCEPT ![p] = Return(c, FALSE, FALSE, "null", "emailFailed")]
          /\ UNCHANGED alertEmails
    /\ UNCHANGED <<now, transactions, overlap, notifications, calcOut, reportOut,
                   categories, batch, reportEmails>>

\* emailService.sendBudgetAlert: the transporter delivers or throws
SendEmail(p) ==
    LET c == call[p] IN
    /\ c.pc = "sendEmail"
    /\ \/ /\ alertEmails' = alertEmails (+)
                SetToBag({[to |-> c.userId, alertType |-> c.budgetStatus.alertType,
                           at |-> now]})
          /\ call' = [call EXCEPT ![p] = [c EXCEPT !.emailed = TRUE,
                                                   !.pc = "updateLastAlertSent"]]
       \/ /\ call' = [call EXCEPT ![p] = Return(c, FALSE, FALSE, "null", "emailFailed")]
          /\ UNCHANGED alertEmails
    /\ UNCHANGED <<now, users, transactions, overlap, notifications, calcOut, reportOut,
                   categories, batch, reportEmails>>

\* budgetTrackingService.updateLastAlertSent: the write lands or throws
UpdateLastAlertSent(p) ==
    LET c == call[p] IN
    /\ c.pc = "updateLastAlertSent"
    /\ \/ /\ users' = [users EXCEPT ![c.userId] =
                LastAlertWritten(@, c.budgetStatus.alertType, now)]
          /\ call' = [call EXCEPT ![p] = [c EXCEPT !.wrote = TRUE,
                                                   !.pc = "saveNotification"]]
       \/ /\ call' = [call EXCEPT ![p] = Catch(c)]
          /\ UNCHANGED users
    /\ UNCHANGED <<now, transactions, overlap, alertEmails, notifications, calcOut, reportOut,
                   categories, batch, reportEmails>>

\* new Notification(...).save() and the success result
SaveNotification(p) ==
    LET c == call[p] IN
    /\ c.pc = "saveNotification"
    /\ \/ /\ notifications' = [notifications EXCEPT ![c.userId] = @ + 1]
          /\ call' = [call EXCEPT ![p] =
                Return(c, TRUE, TRUE, c.budgetStatus.alertType, "sent")]
       \/ /\ call' = [call EXCEPT ![p] = Catch(c)]
          /\ UNCHANGED notifications
    /\ UNCHANGED <<now, users, transactions, overlap, alertEmails, calcOut, reportOut,
                   categories, batch, reportEmails>>

\* the caller of checkAndSendBudgetAlert resumes with the returned object
\* (the routes answer the request, checkAllUserBudgets goes on to the next
\* user) and the invocation is over
Finish(p) ==
    /\ call[p].pc = "done"
    /\ call' = [call EXCEPT ![p] = IdleCall]
    /\ UNCHANGED <<now, users, transactions, overlap, alertEmails,
                   notifications, calcOut, reportOut,
                   categories, batch, reportEmails>>

----------------------------------------------------------------------------
(* routes *)

\* requests of the clients: the authenticated user and the body (title,
\* amount, type)
Requests ==
    {[userId |-> "u1", amount |-> 85, type |-> "expense"],
     [userId |-> "u1", amount |-> 10, type |-> "expense"],
     [userId |-> "u1", amount |-> 10, type |-> "income"],
     [userId |-> "u2", amount |-> 85, type |-> "expense"],
     [userId |-> "u1", amount |-> 0, type |-> "expense"],
     [userId |-> "u2", amount |-> 10, type |-> "transfer"]}

\* POST /api/transactions: validation, save with the default date, then the
\* budget check for an expense
PostTransaction(p, req) ==
    LET userId == req.userId
        body == [amount |-> req.amount, type |-> req.type]
    IN
    /\ Len(transactions) < MaxTx
    /\ NoneReturning
    /\ body.amount # 0
    /\ ~(body.amount <= 0)
    /\ body.type \in {"income", "expense"}
    /\ transactions' = Append(transactions, Tx(userId, body.amount, body.type, now))
    /\ IF body.type = "expense"
       THEN /\ CanStart(p)
            /\ call' = Started(p, userId)
               ELSE /\ p = 1
            /\ UNCHANGED call
    /\ UNCHANGED <<now, users, overlap, alertEmails, notifications, calcOut,
                   reportOut, categories, batch, reportEmails>>

\* bodies of PUT /api/transactions/:id: the paths to set; an absent path is
\* <<>>
UpdateBodies ==
    {[amount |-> <<0 - 5>>, type |-> <<>>, userId |-> <<>>],
     [amount |-> <<0>>, type |-> <<>>, userId |-> <<>>],
     [amount |-> <<20>>, type |-> <<"expense">>, userId |-> <<>>],
     [amount |-> <<>>, type |-> <<"income">>, userId |-> <<>>],
     [amount |-> <<>>, type |-> <<"transfer">>, userId |-> <<>>],
     [amount |-> <<>>, type |-> <<>>, userId |-> <<"u2">>]}

\* the update document applied by findOneAndUpdate, which runs no
\* validators unless asked to and sets every path of the body that the
\* schema knows
Updated(t, body) ==
    [t EXCEPT !.amount = IF body.amount = <<>> THEN @ ELSE body.amount[1],
              !.type = IF body.type = <<>> THEN @ ELSE body.type[1],
              !.userId = IF body.userId = <<>> THEN @ ELSE body.userId[1]]

\* PUT /api/transactions/:id on the i-th stored document: the update, then
\* the budget check when the updated document is an expense
PutTransaction(p, userId, i, body) ==
    /\ i \in 1..Len(transactions)
    /\ transactions[i].userId = userId
    /\ NoneReturning
    /\ transactions' = [transactions EXCEPT ![i] = Updated(@, body)]
    /\ IF Updated(transactions[i], body).type = "expense"
       THEN /\ CanStart(p)
            /\ call' = Started(p, userId)
       ELSE /\ p = 1
            /\ UNCHANGED call
    /\ UNCHANGED <<now, users, overlap, alertEmails, notifications, calcOut,
                   reportOut, categories, batch, reportEmails>>

\* the collection without its i-th document
Without(txs, i) == SubSeq(txs, 1, i - 1) \o SubSeq(txs, i + 1, Len(txs))

\* DELETE /api/transactions/:id on the i-th stored document
DeleteTransaction(userId, i) ==
    /\ i \in 1..Len(transactions)
    /\ transactions[i].userId = userId
    /\ NoneReturning
    /\ transactions' = Without(transactions, i)
    /\ UNCHANGED <<now, users, call, overlap, alertEmails, notifications,
                   calcOut, reportOut, categories, batch, reportEmails>>

----------------------------------------------------------------------------
(* routes/users.js *)

\* bodies of PUT /api/users/budget: amount and the two thresholds, each
\* <<>> when the property is absent; alertThresholds is absent when both are
BudgetBodies ==
    [amount : {<<>>, <<0>>, <<100>>, <<0 - 1>>},
     warning : {<<>>, <<0>>, <<50>>, <<97>>, <<101>>},
     critical : {<<>>, <<0>>, <<60>>, <<0 - 5>>}]

\* the truthiness of an optional number: undefined and 0 are falsy
Truthy(v) == v # <<>> /\ v[1] # 0

\* the three threshold tests under if (alertThresholds)
ThresholdsRejected(warning, critical) ==
    \/ Truthy(warning) /\ (warning[1] < 0 \/ warning[1] > 100)
    \/ Truthy(critical) /\ (critical[1] < 0 \/ critical[1] > 100)
    \/ Truthy(warning) /\ Truthy(critical) /\ warning[1] >= critical[1]

\* updateData applied by findByIdAndUpdate (the schema declares no
\* validator on these paths)
BudgetUpdated(user, body) ==
    [user EXCEPT
        !.monthlyBudget.amount = IF body.amount = <<>> THEN @ ELSE body.amount[1],
        !.monthlyBudget.alertThresholds.warning =
            IF body.warning = <<>> THEN @ ELSE body.warning[1],
        !.monthlyBudget.alertThresholds.critical =
            IF body.critical = <<>> THEN @ ELSE body.critical[1]]

\* PUT /api/users/budget: a rejected request (400) changes nothing
PutBudget(userId, body) ==
    /\ ~(body.amount # <<>> /\ body.amount[1] < 0)
    /\ ~ThresholdsRejected(body.warning, body.critical)
    /\ users' = [users EXCEPT ![userId] = BudgetUpdated(@, body)]
    /\ UNCHANGED <<now, transactions, call, overlap, alertEmails, notifications,
                   calcOut, reportOut, categories, batch, reportEmails>>

\* the runs begin at the last instant of 31 January 2024 and end with
\* 1 February 2024: a change of day and of month lies in between
StartTime == MakeDate(2024, 0, 31, TicksPerDay - 1)

EndTime == MakeDate(2024, 1, 1, TicksPerDay - 1)

\* time passes
Tick ==
    /\ now < EndTime
    /\ NoneReturning
    /\ now' = now + 1
    /\ UNCHANGED <<users, transactions, call, overlap, alertEmails,
                   notifications, calcOut, reportOut,
                   categories, batch, reportEmails>>

----------------------------------------------------------------------------
(* Specification of the alert pipeline: invocations do not overlap *)


Init ==
    /\ now = StartTime
    /\ \E b \in BOOLEAN :
           users = [u \in Users |->
               IF u = "u1" THEN UserDoc(100, DefaultThresholds, NoAlertSent, TRUE)
               ELSE UserDoc(IF b THEN 0 ELSE 100, DefaultThresholds, NoAlertSent, b)]
    /\ transactions = <<>>
    /\ call = [p \in Procs |-> IdleCall]
    /\ overlap = FALSE
    /\ alertEmails = EmptyBag
    /\ notifications = [u \in Users |-> 0]
    /\ calcOut = NoOut
    /\ reportOut = NoOut
    /\ categories = StoredCategories
    /\ batch = NoBatch
    /\ reportEmails = <<>>

Next ==
    \/ Tick
    \/ \E p \in Procs, u \in Users : StartCheck(p, u)
    \/ \E p \in Procs, req \in Requests : PostTransaction(p, req)
    \/ \E p \in Procs : FindUser(p)
    \/ \E p \in Procs : StatusFindUser(p)
    \/ \E p \in Procs : GetExpenses(p)
    \/ \E p \in Procs : Aggregate(p)
    \/ \E p \in Procs : SendEmail(p)
    \/ \E p \in Procs : UpdateLastAlertSent(p)
    \/ \E p \in Procs : SaveNotification(p)
    \/ \E p \in Procs : Finish(p)

Spec == Init /\ [][Next]_vars

----------------------------------------------------------------------------
(* monthlyReportService.getUserReportData *)

\* reportDate, startDate and endDate; targetDate is <<>> when omitted
ReportPeriod(targetDate, nowT) ==
    LET reportDate == IF targetDate = <<>>
                      THEN setMonth(nowT, getMonth(nowT) - 1)
                      ELSE targetDate[1]
    IN  [reportDate |-> reportDate,
         startDate |-> MakeDate(getFullYear(reportDate), getMonth(reportDate), 1, 0),
         endDate |-> MakeDate(getFullYear(reportDate), getMonth(reportDate) + 1, 0, 0)]

RECURSIVE FindTx(_, _, _, _)
\* Transaction.find({ userId, date: { $gte: startDate, $lte: endDate } })
FindTx(txs, userId, startDate, endDate) ==
    IF txs = <<>> THEN <<>>
    ELSE LET t == Head(txs)
             rest == FindTx(Tail(txs), userId, startDate, endDate)
         IN  IF t.userId = userId /\ t.date >= startDate /\ t.date <= endDate
             THEN <<t>> \o rest ELSE rest

\* variant of FilterType: the callback accepts every transaction
FilterTypeAny(txs, type) == txs

RECURSIVE FilterType(_, _)
\* transactions.filter(t => t.type === type)
FilterType(txs, type) ==
    IF txs = <<>> THEN <<>>
    ELSE IF Head(txs).type = type THEN <<Head(txs)>> \o FilterType(Tail(txs), type)
    ELSE FilterType(Tail(txs), type)

\* JavaScript values that meet in the category lookup
JsString(chars) == [jsType |-> "string", chars |-> chars]

JsObjectId(hex) == [jsType |-> "object", hex |-> hex]

JsUndefined == [jsType |-> "undefined"]

\* ObjectId.prototype.toString: the hex string of the id
ObjectIdToString(oid) == JsString(oid.hex)

\* a === b for a string a: true only for a string b of the same characters
\* (no conversion takes place; an object is never equal to a string)
StrictEquals(a, b) ==
    /\ a.jsType = "string"
    /\ b.jsType = "string"
    /\ a.chars = b.chars

\* the _id of a hydrated Category document
CategoryId(c) == JsObjectId(c._id)

\* the categoryId of a hydrated Transaction document: the schema type is
\* ObjectId, an absent path reads undefined
TxCategoryId(t) ==
    IF t.categoryId = <<>> THEN JsUndefined ELSE JsObjectId(t.categoryId[1])

RECURSIVE FindCategories(_, _)
\* Category.find({ userId })
FindCategories(cats, userId) ==
    IF cats = <<>> THEN <<>>
    ELSE IF Head(cats).userId = userId
         THEN <<Head(cats)>> \o FindCategories(Tail(cats), userId)
         ELSE FindCategories(Tail(cats), userId)

RECURSIVE CategoryName(_, _)
\* categories.find(c => c._id.toString() === t.categoryId), then
\* category ? category.name : 'Other'
CategoryName(cats, t) ==
    IF cats = <<>> THEN "Other"
    ELSE IF StrictEquals(ObjectIdToString(CategoryId(Head(cats))), TxCategoryId(t))
         THEN Head(cats).name
         ELSE CategoryName(Tail(cats), t)

\* variant of AddSpending: every expense becomes an entry of its own
AddSpendingAppends(entries, name, amount) ==
    entries \o <<<<name, 0 + amount>>>>

RECURSIVE AddSpending(_, _, _)
\* categorySpending[name] = (categorySpending[name] || 0) + amount, on the
\* entries of the object in insertion order
AddSpending(entries, name, amount) ==
    IF entries = <<>> THEN <<<<name, 0 + amount>>>>
    ELSE IF Head(entries)[1] = name
         THEN <<<<name, Head(entries)[2] + amount>>>> \o Tail(entries)
         ELSE <<Head(entries)>> \o AddSpending(Tail(entries), name, amount)

RECURSIVE CategorySpending(_, _, _)
\* the forEach over the expenses; entries is the object built so far
CategorySpending(expenses, cats, entries) ==
    IF expenses = <<>> THEN entries
    ELSE CategorySpending(Tail(expenses), cats,
             AddSpending(entries, CategoryName(cats, Head(expenses)),
                         Head(expenses).amount))

RECURSIVE InsertSorted(_, _)
\* e is placed behind every entry of the sorted list whose amount is not
\* smaller (Array.prototype.sort is stable; the comparator is b - a)
InsertSorted(sorted, e) ==
    IF sorted = <<>> THEN <<e>>
    ELSE IF Head(sorted)[2] >= e[2]
         THEN <<Head(sorted)>> \o InsertSorted(Tail(sorted), e)
         ELSE <<e>> \o sorted

RECURSIVE SortEntries(_, _)
\* .sort(([,a], [,b]) => b - a)
SortEntries(entries, sorted) ==
    IF entries = <<>> THEN sorted
    ELSE SortEntries(Tail(entries), InsertSorted(sorted, Head(entries)))

\* .slice(0, n)
Slice(s, n) == SubSeq(s, 1, IF Len(s) < n THEN Len(s) ELSE n)

\* the number of categories a report lists
TopCount == 3

getUserReportData(txs, cats, userId, targetDate, nowT) ==
    LET period == ReportPeriod(targetDate, nowT)
        found == FindTx(txs, userId, period.startDate, period.endDate)
        totalIncome == SumAmount(FilterType(found, "income"))
        totalExpenses == SumAmount(FilterType(found, "expense"))
        categorySpending == CategorySpending(FilterType(found, "expense"),
                                             FindCategories(cats, userId), <<>>)
    IN  IF Len(found) = 0 THEN [hasData |-> FALSE]
        ELSE [hasData |-> TRUE,
              month |-> <<getMonth(period.reportDate), getFullYear(period.reportDate)>>,
              totalIncome |-> totalIncome,
              totalExpenses |-> totalExpenses,
              netSavings |-> totalIncome - totalExpenses,
              transactionCount |-> Len(found),
              topCategories |-> Slice(SortEntries(categorySpending, <<>>), TopCount)]

----------------------------------------------------------------------------
(* monthlyReportService.generateMonthlyReports, one step per await *)

\* the User collection in natural order
UserOrder == <<"u1", "u2">>

\* the scheduler or the manual trigger calls generateMonthlyReports
StartReports ==
    /\ batch = NoBatch
    /\ batch' = [batch EXCEPT !.pc = "findUsers"]
    /\ UNCHANGED <<now, users, transactions, call, overlap, alertEmails,
                   notifications, calcOut, reportOut, categories, reportEmails>>

RECURSIVE SelectReportUsersExplicit(_, _)
\* variant of SelectReportUsers: only an explicit true is selected
SelectReportUsersExplicit(order, docs) ==
    IF order = <<>> THEN <<>>
    ELSE LET rest == SelectReportUsersExplicit(Tail(order), docs)
         IN  IF docs[Head(order)].settings.monthlyReports = <<TRUE>>
             THEN <<Head(order)>> \o rest ELSE rest

RECURSIVE SelectReportUsers(_, _)
\* User.find({ $or: [{ 'settings.monthlyReports': true },
\*                   { 'settings.monthlyReports': { $exists: false } }] })
SelectReportUsers(order, docs) ==
    IF order = <<>> THEN <<>>
    ELSE LET rest == SelectReportUsers(Tail(order), docs)
             setting == docs[Head(order)].settings.monthlyReports
         IN  IF setting = <<TRUE>> \/ setting = <<>>
             THEN <<Head(order)>> \o rest ELSE rest

\* the for loop takes the next user, or the run ends
LoopHead(b) ==
    IF b.queue = <<>>
    THEN [b EXCEPT !.pc = "done", !.user = "none"]
    ELSE [b EXCEPT !.pc = "reportData", !.user = Head(b.queue),
                   !.queue = Tail(b.queue), !.failure = "none",
                   !.reportData = [hasData |-> FALSE]]

\* the iteration of b.user is over
EndIteration(b, fallback) ==
    LoopHead([b EXCEPT !.log = Append(@, [user |-> b.user,
                                         reportData |-> b.reportData,
                                         failure |-> b.failure,
                                         fallback |-> fallback])])

\* the outer catch block of generateMonthlyReports: the error is logged
\* and the run is over
OuterCatch(b) == [b EXCEPT !.pc = "done", !.aborted = TRUE]

\* User.find answers or throws
FindReportUsers ==
    /\ batch.pc = "findUsers"
    /\ \/ batch' = OuterCatch(batch)
       \/ LET found == SelectReportUsers(UserOrder, users)
          IN  batch' = LoopHead([batch EXCEPT !.selected = found, !.queue = found])
    /\ UNCHANGED <<now, users, transactions, call, overlap, alertEmails,
                   notifications, calcOut, reportOut, categories, reportEmails>>

\* variant of ReportData: the report is rendered whatever hasData says
ReportDataAlwaysRenders ==
    /\ batch.pc = "reportData"
    /\ \/ batch' = OuterCatch(batch)
       \/ LET reportData == getUserReportData(transactions, categories,
                                              batch.user, <<>>, now)
          IN  batch' = [batch EXCEPT !.reportData = reportData, !.pc = "render"]
    /\ UNCHANGED <<now, users, transactions, call, overlap, alertEmails,
                   notifications, calcOut, reportOut, categories, reportEmails>>

\* await this.getUserReportData(user._id), outside the inner try block, and
\* the hasData test
ReportData ==
    /\ batch.pc = "reportData"
    /\ \/ batch' = OuterCatch(batch)
       \/ LET reportData == getUserReportData(transactions, categories,
                                              batch.user, <<>>, now)
              b == [batch EXCEPT !.reportData = reportData]
          IN  batch' = IF reportData.hasData THEN [b EXCEPT !.pc = "render"]
                       ELSE EndIteration(b, "none")
    /\ UNCHANGED <<now, users, transactions, call, overlap, alertEmails,
                   notifications, calcOut, reportOut, categories, reportEmails>>

\* variant of Render: a failed rendering ends the iteration
RenderWithoutFallback ==
    /\ batch.pc = "render"
    /\ \/ batch' = [batch EXCEPT !.pc = "send"]
       \/ batch' = EndIteration([batch EXCEPT !.failure = "render"], "none")
    /\ UNCHANGED <<now, users, transactions, call, overlap, alertEmails,
                   notifications, calcOut, reportOut, categories, reportEmails>>

\* reportGeneratorService.generatePDFReport / generateExcelReport writes the
\* file or throws
Render ==
    /\ batch.pc = "render"
    /\ \/ batch' = [batch EXCEPT !.pc = "send"]
       \/ batch' = [batch EXCEPT !.failure = "render", !.pc = "fallback"]
    /\ UNCHANGED <<now, users, transactions, call, overlap, alertEmails,
                   notifications, calcOut, reportOut, categories, reportEmails>>

\* a call of emailService.sendMonthlyReport: the message handed to the
\* transporter and whether sendMail resolved
ReportEmail(to, attachment, delivered) ==
    [to |-> to, attachment |-> attachment, delivered |-> delivered]

\* emailService.sendMonthlyReport with the file attached
SendReport ==
    /\ batch.pc = "send"
    /\ \/ /\ reportEmails' = Append(reportEmails, ReportEmail(batch.user, TRUE, TRUE))
          /\ batch' = [batch EXCEPT !.pc = "cleanup"]
       \/ /\ reportEmails' = Append(reportEmails, ReportEmail(batch.user, TRUE, FALSE))
          /\ batch' = [batch EXCEPT !.failure = "send", !.pc = "fallback"]
    /\ UNCHANGED <<now, users, transactions, call, overlap, alertEmails,
                   notifications, calcOut, reportOut, categories>>

\* fs.existsSync / fs.unlinkSync on the temporary file, still inside the
\* inner try block
Cleanup ==
    /\ batch.pc = "cleanup"
    /\ \/ batch' = EndIteration(batch, "none")
       \/ batch' = [batch EXCEPT !.failure = "cleanup", !.pc = "fallback"]
    /\ UNCHANGED <<now, users, transactions, call, overlap, alertEmails,
                   notifications, calcOut, reportOut, categories, reportEmails>>

\* the inner catch block: sendMonthlyReport without attachment, whose own
\* failure is caught and logged
Fallback ==
    /\ batch.pc = "fallback"
    /\ \/ /\ reportEmails' = Append(reportEmails, ReportEmail(batch.user, FALSE, TRUE))
          /\ batch' = EndIteration(batch, "sent")
       \/ /\ reportEmails' = Append(reportEmails, ReportEmail(batch.user, FALSE, FALSE))
          /\ batch' = EndIteration(batch, "failed")
    /\ UNCHANGED <<now, users, transactions, call, overlap, alertEmails,
                   notifications, calcOut, reportOut, categories>>

----------------------------------------------------------------------------
(* routes/reports.js *)

\* GET /monthly/:year/:month/download
DownloadReport(userId, year, month) ==
    LET date == MakeDate(year, month - 1, 1, 0)
        reportData == getUserReportData(transactions, categories, userId,
                                        <<date>>, now)
        answer(status, threw) ==
            [op |-> "download", userId |-> userId, at |-> now,
             targetDate |-> <<date>>, period |-> ReportPeriod(<<date>>, now),
             result |-> reportData, status |-> status, threw |-> threw]
    IN
    /\ reportOut = NoOut
    /\ \/ reportOut' = answer(500, TRUE)
       \/ reportOut' = answer(IF ~reportData.hasData THEN 404 ELSE 200, FALSE)
    /\ UNCHANGED <<now, users, transactions, call, overlap, alertEmails,
                   notifications, calcOut, categories, batch, reportEmails>>

----------------------------------------------------------------------------
(* Direct calls of the read-only operations, for the specifications that   *)
(* draw their inputs in the initial state                                  *)

CallCheckBudgetStatus(userId) ==
    /\ calcOut = NoOut
    /\ calcOut' = [op |-> "checkBudgetStatus", userId |-> userId, at |-> now,
                   result |-> checkBudgetStatusOf(transactions, users, userId, now)]
    /\ UNCHANGED <<now, users, transactions, call, overlap, alertEmails,
                   notifications, reportOut, categories, batch, reportEmails>>

CallGetMonthlyExpenses(userId, month, year) ==
    /\ calcOut = NoOut
    /\ calcOut' = [op |-> "getMonthlyExpenses", userId |-> userId, at |-> now,
                   month |-> month, year |-> year,
                   result |-> getMonthlyExpenses(transactions, userId, month, year, now)]
    /\ UNCHANGED <<now, users, transactions, call, overlap, alertEmails,
                   notifications, reportOut, categories, batch, reportEmails>>

CallGetUserReportData(userId, targetDate) ==
    /\ reportOut = NoOut
    /\ reportOut' = [op |-> "getUserReportData", userId |-> userId, at |-> now,
                     targetDate |-> targetDate,
                     period |-> ReportPeriod(targetDate, now),
                     result |-> getUserReportData(transactions, categories, userId,
                                                   targetDate, now)]
    /\ UNCHANGED <<now, users, transactions, call, overlap, alertEmails,
                   notifications, calcOut, categories, batch, reportEmails>>

----------------------------------------------------------------------------
(* budgetAlertService.checkAllUserBudgets, one step per await *)

\* the results object before the loop
NoResults ==
    [totalUsers |-> 0, alertsSent |-> 0, warnings |-> 0, critical |-> 0,
     errors |-> 0, details |-> <<>>]

\* checkAllUserBudgets has not been called
NoAlertBatch ==
    [pc |-> "idle",
     selected |-> <<>>,      \* the users array returned by User.find
     queue |-> <<>>,         \* the users the for loop has not reached yet
     results |-> NoResults]

\* User.find({ 'monthlyBudget.amount': { $gt: 0 },
\*             'settings.budgetAlerts': true }) on the collection in natural
\* order
SelectBudgetUsers(us) ==
    LET Selected(u) == /\ us[u].monthlyBudget.amount > 0
                      /\ us[u].settings.budgetAlerts = TRUE
    IN  SelectSeq(UserOrder, Selected)

\* the body of the per-user try block after checkAndSendBudgetAlert has
\* returned: the details entry and the counters
Collected(results, userId, result) ==
    [results EXCEPT
        !.details = Append(@, [userId |-> userId, result |-> result]),
        !.alertsSent = IF result.alertSent THEN @ + 1 ELSE @,
        !.warnings = IF result.alertSent /\ result.alertType = "warning"
                     THEN @ + 1 ELSE @,
        !.critical = IF result.alertSent /\ result.alertType = "critical"
                     THEN @ + 1 ELSE @,
        !.errors = IF ~result.success THEN @ + 1 ELSE @]

\* the scheduler or a route calls checkAllUserBudgets
StartAllBudgets ==
    /\ batch.pc = "idle"
    /\ batch' = [batch EXCEPT !.pc = "findUsers"]
    /\ UNCHANGED <<now, users, transactions, call, overlap, alertEmails,
                   notifications, calcOut, reportOut, categories, reportEmails>>

\* await User.find(...): a rejection reaches the outer catch block, which
\* throws it again; otherwise the results object is set up and the loop
\* starts
FindBudgetUsers ==
    /\ batch.pc = "findUsers"
    /\ \/ batch' = [batch EXCEPT !.pc = "thrown"]
       \/ LET found == SelectBudgetUsers(users) IN
          batch' = [batch EXCEPT
              !.selected = found,
              !.queue = found,
              !.results = [NoResults EXCEPT !.totalUsers = Len(found)],
              !.pc = IF found = <<>> THEN "returned" ELSE "check"]
    /\ UNCHANGED <<now, users, transactions, call, overlap, alertEmails,
                   notifications, calcOut, reportOut, categories, reportEmails>>

\* this.checkAndSendBudgetAlert(user._id) is called for the next user
CheckNextUser(p) ==
    /\ batch.pc = "check"
    /\ CanStart(p)
    /\ call' = Started(p, Head(batch.queue))
    /\ batch' = [batch EXCEPT !.pc = "await"]
    /\ UNCHANGED <<now, users, transactions, overlap, alertEmails,
                   notifications, calcOut, reportOut, categories, reportEmails>>

\* the loop resumes with the returned object (checkAndSendBudgetAlert
\* catches whatever its collaborators throw, so the per-user catch block is
\* never entered), records it and starts the delay
CollectResult(p) ==
    /\ batch.pc = "await"
    /\ call[p].pc = "done"
    /\ call' = [call EXCEPT ![p] = IdleCall]
    /\ batch' = [batch EXCEPT
           !.results = Collected(@, Head(batch.queue), call[p].result),
           !.pc = "delay"]
    /\ UNCHANGED <<now, users, transactions, overlap, alertEmails,
                   notifications, calcOut, reportOut, categories, reportEmails>>

\* the delay between two users is over: the next iteration, or the return
\* of the results
EndDelay ==
    /\ batch.pc = "delay"
    /\ batch' = [batch EXCEPT
           !.queue = Tail(@),
           !.pc = IF Tail(batch.queue) = <<>> THEN "returned" ELSE "check"]
    /\ UNCHANGED <<now, users, transactions, call, overlap, alertEmails,
                   notifications, calcOut, reportOut, categories, reportEmails>>

----------------------------------------------------------------------------
(* budgetTrackingService.getBudgetOverview, one step per aggregate, and    *)
(* budgetAlertService.getBudgetAlertSummary                                *)

\* $lookup from 'categories' on _id and $arrayElemAt ['$category.name', 0]:
\* the name of the category with that _id, whoever owns it; missing (<<>>)
\* when the categoryId is absent or refers to no stored category
LookupCategoryName(cats, categoryId) ==
    LET Referred(c) == categoryId = <<c._id>>
        category == SelectSeq(cats, Referred)
    IN  IF category = <<>> THEN <<>> ELSE <<category[1].name>>

\* $group with _id '$categoryId': one group for every distinct categoryId
\* value of the matched documents, the absent one (null) included
GroupByCategoryId(cats, expenses) ==
    LET ids == {expenses[i].categoryId : i \in 1..Len(expenses)}
        Of(id) == LET Same(t) == t.categoryId = id IN SelectSeq(expenses, Same)
    IN  {[_id |-> id,
          categoryName |-> LookupCategoryName(cats, id),
          totalAmount |-> SumAmount(Of(id)),
          transactionCount |-> Len(Of(id))] : id \in ids}

\* $sort { totalAmount: -1 }: every order of the groups with non-increasing
\* totals (the order of groups with equal totals is not determined)
SortedByTotal(groups) ==
    LET n == Cardinality(groups) IN
    {s \in [1..n -> groups] :
        /\ \A i, j \in 1..n : i # j => s[i] # s[j]
        /\ \A i, j \in 1..n : i < j => s[i].totalAmount >= s[j].totalAmount}

\* Math.round((totalAmount / spent) * 100 * 100) / 100 in hundredths of a
\* percent; <<>> when spent is 0 and the quotient is not a finite number
BreakdownPercentage(totalAmount, spent) ==
    IF spent = 0 THEN <<>>
    ELSE IF spent > 0 THEN <<MathRound(totalAmount * 100 * 100, spent)>>
    ELSE <<MathRound((0 - totalAmount) * 100 * 100, 0 - spent)>>

\* the object a group is mapped to; cat.categoryName || 'Uncategorized'
BreakdownEntry(cat, spent) ==
    [categoryId |-> cat._id,
     categoryName |-> IF cat.categoryName = <<>> THEN "Uncategorized"
                      ELSE cat.categoryName[1],
     amount |-> cat.totalAmount,
     percentage |-> BreakdownPercentage(cat.totalAmount, spent),
     transactionCount |-> cat.transactionCount]

\* the results the second aggregate and the map can give on the stored
\* transactions at time nowT
CategoryBreakdowns(txs, cats, userId, spent, nowT) ==
    LET period == ExpensePeriod(0, 0, nowT)
        expenses == SelectTx(txs, userId, period.startDate, period.endDate)
    IN  {[i \in 1..Len(s) |-> BreakdownEntry(s[i], spent)] :
            s \in SortedByTotal(GroupByCategoryId(cats, expenses))}

\* { ...budgetStatus, categoryBreakdown }
WithBreakdown(budgetStatus, breakdown) ==
    [budgetSet |-> budgetStatus.budgetSet,
     budget |-> budgetStatus.budget,
     spent |-> budgetStatus.spent,
     remaining |-> budgetStatus.remaining,
     percentageUsed |-> budgetStatus.percentageUsed,
     alertLevel |-> budgetStatus.alertLevel,
     shouldSendAlert |-> budgetStatus.shouldSendAlert,
     alertType |-> budgetStatus.alertType,
     thresholds |-> budgetStatus.thresholds,
     monthlyData |-> budgetStatus.monthlyData,
     categoryBreakdown |-> breakdown]

\* getBudgetOverview(userId) is invoked
StartOverview(userId) ==
    /\ calcOut = NoOut
    /\ calcOut' = [op |-> "getBudgetOverview", pc |-> "checkBudgetStatus",
                   userId |-> userId, at |-> now, threw |-> FALSE,
                   result |-> NoBudget]
    /\ UNCHANGED <<now, users, transactions, call, overlap, alertEmails,
                   notifications, reportOut, categories, batch, reportEmails>>

\* await this.checkBudgetStatus(userId) and the return when no budget is set
OverviewStatus ==
    /\ calcOut.op = "getBudgetOverview"
    /\ calcOut.pc = "checkBudgetStatus"
    /\ \/ calcOut' = [calcOut EXCEPT !.pc = "done", !.threw = TRUE]
       \/ LET budgetStatus == checkBudgetStatusOf(transactions, users,
                                                  calcOut.userId, now)
          IN  calcOut' = [calcOut EXCEPT
                  !.result = budgetStatus,
                  !.pc = IF budgetStatus.budgetSet THEN "aggregate" ELSE "done"]
    /\ UNCHANGED <<now, users, transactions, call, overlap, alertEmails,
                   notifications, reportOut, categories, batch, reportEmails>>

\* the category aggregate on the collection as it is now, and the returned
\* object
OverviewBreakdown ==
    /\ calcOut.op = "getBudgetOverview"
    /\ calcOut.pc = "aggregate"
    /\ \/ calcOut' = [calcOut EXCEPT !.pc = "done", !.threw = TRUE]
       \/ \E breakdown \in CategoryBreakdowns(transactions, categories,
                                               calcOut.userId,
                                               calcOut.result.spent, now) :
              calcOut' = [calcOut EXCEPT
                  !.pc = "done",
                  !.result = WithBreakdown(@, breakdown)]
    /\ UNCHANGED <<now, users, transactions, call, overlap, alertEmails,
                   notifications, reportOut, categories, batch, reportEmails>>

\* the object getBudgetAlertSummary returns when no budget is set
NoBudgetSummary ==
    [budgetSet |-> FALSE, alertsEnabled |-> FALSE, currentStatus |-> "no_budget"]

\* getBudgetAlertSummary with its two reads of the user document
getBudgetAlertSummary(txs, us, userId, nowT) ==
    LET budgetStatus == checkBudgetStatusOf(txs, us, userId, nowT)
    IN  IF ~budgetStatus.budgetSet THEN NoBudgetSummary
        ELSE LET user == findById(us, userId)[1]
             IN  [budgetSet |-> TRUE,
                  alertsEnabled |-> user.settings.budgetAlerts,
                  currentStatus |-> budgetStatus.alertLevel,
                  percentageUsed |-> budgetStatus.percentageUsed,
                  shouldSendAlert |-> budgetStatus.shouldSendAlert,
                  lastAlerts |-> user.monthlyBudget.lastAlertSent,
                  thresholds |-> budgetStatus.thresholds]

CallGetBudgetAlertSummary(userId) ==
    /\ calcOut = NoOut
    /\ \/ calcOut' = [op |-> "getBudgetAlertSummary", userId |-> userId,
                      at |-> now, threw |-> TRUE, result |-> NoBudgetSummary]
       \/ calcOut' = [op |-> "getBudgetAlertSummary", userId |-> userId,
                      at |-> now, threw |-> FALSE,
                      result |-> getBudgetAlertSummary(transactions, users,
                                                       userId, now)]
    /\ UNCHANGED <<now, users, transactions, call, overlap, alertEmails,
                   notifications, reportOut, categories, batch, reportEmails>>

----------------------------------------------------------------------------
(* Input spaces *)

MaxBudget == 8
MaxSpent == 10
MaxStoreTx == 2
YearDays == 366

StatusThresholds ==
    {DefaultThresholds, [warning |-> 50, critical |-> 75],
     [warning |-> 90, critical |-> 60]}

StatusLastAlerts == {<<>>, <<StartTime - TicksPerDay>>, <<StartTime>>}

\* budget, thresholds, timestamps and month's spending of user u1
InitStatus ==
    /\ now = StartTime
    /\ \E b \in 0..MaxBudget, th \in StatusThresholds,
          la \in [AlertTypes -> StatusLastAlerts] :
           users = [u \in Users |->
               IF u = "u1" THEN UserDoc(b, th, la, TRUE)
               ELSE UserDoc(0, DefaultThresholds, NoAlertSent, TRUE)]
    /\ \E a \in (0 - 1)..MaxSpent :
           transactions = IF a = 0 THEN <<>> ELSE <<Tx("u1", a, "expense", StartTime)>>
    /\ call = [p \in Procs |-> IdleCall]
    /\ overlap = FALSE
    /\ alertEmails = EmptyBag
    /\ notifications = [u \in Users |-> 0]
    /\ calcOut = NoOut
    /\ reportOut = NoOut
    /\ categories = StoredCategories
    /\ batch = NoBatch
    /\ reportEmails = <<>>

NextStatus == \E u \in Users : CallCheckBudgetStatus(u)

SpecStatus == InitStatus /\ [][NextStatus]_vars

MaxLargeSpent == 1100

\* budgets of hundreds of currency units, where a percentage has digits
\* beyond the second decimal
LargeBudgets == {203, 1000, 1019}

LargeThresholds == {DefaultThresholds, [warning |-> 67, critical |-> 90]}

\* budget, thresholds and month's spending of user u1, in whole currency units
InitRounding ==
    /\ now = StartTime
    /\ \E b \in LargeBudgets, th \in LargeThresholds :
           users = [u \in Users |->
               IF u = "u1" THEN UserDoc(b, th, NoAlertSent, TRUE)
               ELSE UserDoc(0, DefaultThresholds, NoAlertSent, TRUE)]
    /\ \E a \in 0..MaxLargeSpent :
           transactions = IF a = 0 THEN <<>> ELSE <<Tx("u1", a, "expense", StartTime)>>
    /\ call = [p \in Procs |-> IdleCall]
    /\ overlap = FALSE
    /\ alertEmails = EmptyBag
    /\ notifications = [u \in Users |-> 0]
    /\ calcOut = NoOut
    /\ reportOut = NoOut
    /\ categories = StoredCategories
    /\ batch = NoBatch
    /\ reportEmails = <<>>

NextRounding == \E u \in Users : CallCheckBudgetStatus(u)

SpecRounding == InitRounding /\ [][NextRounding]_vars

\* dates on both sides of month ends, one of them in a leap February
StoreDates ==
    {MakeDate(2024, 0, 31, TicksPerDay - 1), MakeDate(2024, 1, 1, 0),
     MakeDate(2024, 1, 29, TicksPerDay - 1), MakeDate(2024, 2, 1, 0),
     MakeDate(2023, 1, 15, 0)}

StoreTx ==
    {Tx(o[1], a, o[2], d) :
        o \in {<<"u1", "expense">>, <<"u1", "income">>, <<"u2", "expense">>},
        a \in {10, 85}, d \in StoreDates}

Stores == UNION {[1..n -> StoreTx] : n \in 0..MaxStoreTx}

InitStore ==
    /\ now = StartTime
    /\ users = [u \in Users |-> UserDoc(100, DefaultThresholds, NoAlertSent, TRUE)]
    /\ transactions \in Stores
    /\ call = [p \in Procs |-> IdleCall]
    /\ overlap = FALSE
    /\ alertEmails = EmptyBag
    /\ notifications = [u \in Users |-> 0]
    /\ calcOut = NoOut
    /\ reportOut = NoOut
    /\ categories = StoredCategories
    /\ batch = NoBatch
    /\ reportEmails = <<>>

NextQuery ==
    \E u \in Users, m \in {0, 1, 2, 3, 12}, y \in {0, 2023, 2024} :
        CallGetMonthlyExpenses(u, m, y)

SpecQuery == InitStore /\ [][NextQuery]_vars

\* the dates the report routes pass: the first day of a month
TargetDates ==
    {<<>>, <<MakeDate(2024, 0, 1, 0)>>, <<MakeDate(2024, 1, 1, 0)>>,
     <<MakeDate(2024, 2, 1, 0)>>}

NextReport == \E u \in Users, td \in TargetDates : CallGetUserReportData(u, td)

SpecReport == InitStore /\ [][NextReport]_vars

\* every instant of the days of one year as the current date
InitPeriod ==
    /\ now \in MakeDate(2024, 0, 1, 0)..(MakeDate(2024, 0, 1 + YearDays, 0) - 1)
    /\ users = [u \in Users |-> UserDoc(100, DefaultThresholds, NoAlertSent, TRUE)]
    /\ transactions = <<>>
    /\ call = [p \in Procs |-> IdleCall]
    /\ overlap = FALSE
    /\ alertEmails = EmptyBag
    /\ notifications = [u \in Users |-> 0]
    /\ calcOut = NoOut
    /\ reportOut = NoOut
    /\ categories = StoredCategories
    /\ batch = NoBatch
    /\ reportEmails = <<>>

SpecPeriod == InitPeriod /\ [][NextReport]_vars

MaxCategoryTx == 4

\* transactions of u1 on 1 February 2024: expenses in four categories of
\* u1, an income, and expenses whose reference is dangling, absent, or the
\* category of another user
CategoryTx ==
    LET d == MakeDate(2024, 1, 1, 0) IN
    {WithCategory(Tx("u1", 100, "expense", d), "c1"),
     WithCategory(Tx("u1", 50, "expense", d), "c1"),
     WithCategory(Tx("u1", 200, "expense", d), "c2"),
     WithCategory(Tx("u1", 30, "expense", d), "c3"),
     WithCategory(Tx("u1", 20, "expense", d), "c4"),
     WithCategory(Tx("u1", 40, "expense", d), "c9"),
     WithCategory(Tx("u1", 60, "expense", d), "c5"),
     Tx("u1", 5, "expense", d),
     Tx("u1", 500, "income", d)}

InitCategories ==
    /\ now = MakeDate(2024, 2, 1, 0)
    /\ users = [u \in Users |-> UserDoc(100, DefaultThresholds, NoAlertSent, TRUE)]
    /\ transactions \in UNION {[1..n -> CategoryTx] : n \in 0..MaxCategoryTx}
    /\ call = [p \in Procs |-> IdleCall]
    /\ overlap = FALSE
    /\ alertEmails = EmptyBag
    /\ notifications = [u \in Users |-> 0]
    /\ calcOut = NoOut
    /\ reportOut = NoOut
    /\ categories = StoredCategories
    /\ batch = NoBatch
    /\ reportEmails = <<>>

NextCategories ==
    \E u \in Users, td \in {<<>>, <<MakeDate(2024, 1, 1, 0)>>} :
        CallGetUserReportData(u, td)

SpecCategories == InitCategories /\ [][NextCategories]_vars

MaxBatchTx == 2

\* transactions in and around January 2024, the month a run on 1 February
\* 2024 reports on
BatchTx ==
    {Tx("u1", 85, "expense", MakeDate(2024, 0, 15, 0)),
     Tx("u2", 10, "income", MakeDate(2024, 0, 15, 0)),
     Tx("u1", 10, "expense", MakeDate(2024, 1, 1, 0))}

\* the day of the scheduled run ('0 9 1 * *')
InitBatch ==
    /\ now = MakeDate(2024, 1, 1, 0)
    /\ \E setting \in [Users -> {<<TRUE>>, <<FALSE>>, <<>>}] :
           users = [u \in Users |->
               WithMonthlyReports(UserDoc(100, DefaultThresholds, NoAlertSent, TRUE),
                                  setting[u])]
    /\ transactions \in UNION {[1..n -> BatchTx] : n \in 0..MaxBatchTx}
    /\ call = [p \in Procs |-> IdleCall]
    /\ overlap = FALSE
    /\ alertEmails = EmptyBag
    /\ notifications = [u \in Users |-> 0]
    /\ calcOut = NoOut
    /\ reportOut = NoOut
    /\ categories = StoredCategories
    /\ batch = NoBatch
    /\ reportEmails = <<>>

NextBatch ==
    \/ StartReports
    \/ FindReportUsers
    \/ ReportData
    \/ Render
    \/ SendReport
    \/ Cleanup
    \/ Fallback
    \/ \E u \in Users : DownloadReport(u, 2024, 1)

SpecBatch == InitBatch /\ [][NextBatch]_vars

\* users as the schema defaults create them
InitBudget ==
    /\ now = StartTime
    /\ users = [u \in Users |-> UserDoc(0, DefaultThresholds, NoAlertSent, TRUE)]
    /\ transactions = <<>>
    /\ call = [p \in Procs |-> IdleCall]
    /\ overlap = FALSE
    /\ alertEmails = EmptyBag
    /\ notifications = [u \in Users |-> 0]
    /\ calcOut = NoOut
    /\ reportOut = NoOut
    /\ categories = StoredCategories
    /\ batch = NoBatch
    /\ reportEmails = <<>>

NextBudget == \E u \in Users, body \in BudgetBodies : PutBudget(u, body)

SpecBudget == InitBudget /\ [][NextBudget]_vars

\* users who have switched the budget alerts off: the budget check a
\* transaction route starts ends after the user was loaded
InitTransactions ==
    /\ now = StartTime
    /\ users = [u \in Users |-> UserDoc(100, DefaultThresholds, NoAlertSent, FALSE)]
    /\ transactions = <<>>
    /\ call = [p \in Procs |-> IdleCall]
    /\ overlap = FALSE
    /\ alertEmails = EmptyBag
    /\ notifications = [u \in Users |-> 0]
    /\ calcOut = NoOut
    /\ reportOut = NoOut
    /\ categories = StoredCategories
    /\ batch = NoBatch
    /\ reportEmails = <<>>

NextTransactions ==
    \/ \E p \in Procs, req \in Requests : PostTransaction(p, req)
    \/ \E p \in Procs, u \in Users, i \in 1..MaxTx, body \in UpdateBodies :
           PutTransaction(p, u, i, body)
    \/ \E u \in Users, i \in 1..MaxTx : DeleteTransaction(u, i)
    \/ \E p \in Procs : FindUser(p)
    \/ \E p \in Procs : Finish(p)

SpecTransactions == InitTransactions /\ [][NextTransactions]_vars

\* the transactions of user u2 before any request of user u1
OthersTransactions == <<Tx("u2", 50, "expense", StartTime)>>

\* user u2 owns a transaction and stays silent; every request is one of
\* user u1
InitIsolation ==
    /\ now = StartTime
    /\ users = [u \in Users |-> UserDoc(100, DefaultThresholds, NoAlertSent, FALSE)]
    /\ transactions \in {OthersTransactions, <<>>}
    /\ call = [p \in Procs |-> IdleCall]
    /\ overlap = FALSE
    /\ alertEmails = EmptyBag
    /\ notifications = [u \in Users |-> 0]
    /\ calcOut = NoOut
    /\ reportOut = NoOut
    /\ categories = StoredCategories
    /\ batch = NoBatch
    /\ reportEmails = <<>>

NextIsolation ==
    \/ \E p \in Procs, req \in {r \in Requests : r.userId = "u1"} :
           PostTransaction(p, req)
    \/ \E p \in Procs, i \in 1..MaxTx, body \in UpdateBodies :
           PutTransaction(p, "u1", i, body)
    \/ \E i \in 1..MaxTx : DeleteTransaction("u1", i)
    \/ \E p \in Procs : FindUser(p)
    \/ \E p \in Procs : Finish(p)

SpecIsolation == InitIsolation /\ [][NextIsolation]_vars

\* the identifiers the single-user operations are called with
CallerIds == {"u1", MissingUser}

ServiceLastAlerts ==
    {NoAlertSent, [warning |-> <<StartTime - TicksPerDay>>, critical |-> <<>>]}

ServiceStores ==
    {<<Tx("u1", 85, "expense", StartTime), Tx("u2", 45, "expense", StartTime)>>,
     <<Tx("u1", 96, "expense", StartTime), Tx("u2", 45, "expense", StartTime)>>}

\* the operations of the two services called directly, for stored users
\* (u1 with and without a budget, u2 with non-default data) and for an
\* identifier without a user
InitService ==
    /\ now = StartTime
    /\ \E b \in {0, 100}, la \in ServiceLastAlerts :
           users = [u \in Users |->
               IF u = "u1" THEN UserDoc(b, DefaultThresholds, la, TRUE)
               ELSE UserDoc(50, [warning |-> 50, critical |-> 75],
                            [warning |-> <<StartTime - TicksPerDay>>,
                             critical |-> <<StartTime - TicksPerDay>>], TRUE)]
    /\ transactions \in ServiceStores
    /\ call = [p \in Procs |-> IdleCall]
    /\ overlap = FALSE
    /\ alertEmails = EmptyBag
    /\ notifications = [u \in Users |-> 0]
    /\ calcOut = NoOut
    /\ reportOut = NoOut
    /\ categories = StoredCategories
    /\ batch = NoBatch
    /\ reportEmails = <<>>

NextService ==
    \/ \E p \in Procs, u \in CallerIds : StartCheck(p, u)
    \/ \E p \in Procs : FindUser(p)
    \/ \E p \in Procs : StatusFindUser(p)
    \/ \E p \in Procs : GetExpenses(p)
    \/ \E p \in Procs : Aggregate(p)
    \/ \E p \in Procs : SendEmail(p)
    \/ \E p \in Procs : UpdateLastAlertSent(p)
    \/ \E p \in Procs : SaveNotification(p)
    \/ \E p \in Procs : Finish(p)
    \/ \E u \in CallerIds : CallCheckBudgetStatus(u)
    \/ \E u \in CallerIds : CallGetMonthlyExpenses(u, 0, 0)
    \/ \E u \in CallerIds : StartOverview(u)
    \/ OverviewStatus
    \/ OverviewBreakdown
    \/ \E u \in CallerIds : CallGetBudgetAlertSummary(u)
    \/ CallGetUserReportData("u1", <<>>)

SpecService == InitService /\ [][NextService]_vars

\* stores of the current month: empty, one named category, two named
\* categories with equal totals, a category that is not stored next to an
\* unset one, and another user's expense
OverviewStores ==
    {<<>>,
     <<WithCategory(Tx("u1", 50, "expense", StartTime), "c1")>>,
     <<WithCategory(Tx("u1", 50, "expense", StartTime), "c1"),
       WithCategory(Tx("u1", 50, "expense", StartTime), "c2")>>,
     <<WithCategory(Tx("u1", 40, "expense", StartTime), "c9"),
       Tx("u1", 5, "expense", StartTime)>>,
     <<WithCategory(Tx("u2", 60, "expense", StartTime), "c5")>>}

\* getBudgetOverview called while the transaction routes serve requests
InitOverview ==
    /\ now = StartTime
    /\ users = [u \in Users |-> UserDoc(100, DefaultThresholds, NoAlertSent, FALSE)]
    /\ transactions \in OverviewStores
    /\ call = [p \in Procs |-> IdleCall]
    /\ overlap = FALSE
    /\ alertEmails = EmptyBag
    /\ notifications = [u \in Users |-> 0]
    /\ calcOut = NoOut
    /\ reportOut = NoOut
    /\ categories = StoredCategories
    /\ batch = NoBatch
    /\ reportEmails = <<>>

NextOverview ==
    \/ \E u \in Users : StartOverview(u)
    \/ OverviewStatus
    \/ OverviewBreakdown
    \/ \E p \in Procs,
          req \in {r \in Requests : r.userId = "u1" /\ r.amount = 10} :
           PostTransaction(p, req)
    \/ \E p \in Procs, i \in 1..MaxTx,
          body \in {b \in UpdateBodies : b.amount = <<20>>} :
           PutTransaction(p, "u1", i, body)
    \/ \E i \in 1..MaxTx : DeleteTransaction("u1", i)
    \/ \E p \in Procs : FindUser(p)
    \/ \E p \in Procs : Finish(p)

SpecOverview == InitOverview /\ [][NextOverview]_vars

AlertBatchStores ==
    {<<>>,
     <<Tx("u1", 85, "expense", StartTime)>>,
     <<Tx("u1", 85, "expense", StartTime), Tx("u2", 96, "expense", StartTime)>>}

\* checkAllUserBudgets on users with and without a budget and with alerts
\* on and off
InitAlertBatch ==
    /\ now = StartTime
    /\ \E amounts \in [Users -> {0, 100}], alerts \in [Users -> BOOLEAN] :
           users = [u \in Users |->
               UserDoc(amounts[u], DefaultThresholds, NoAlertSent, alerts[u])]
    /\ transactions \in AlertBatchStores
    /\ call = [p \in Procs |-> IdleCall]
    /\ overlap = FALSE
    /\ alertEmails = EmptyBag
    /\ notifications = [u \in Users |-> 0]
    /\ calcOut = NoOut
    /\ reportOut = NoOut
    /\ categories = StoredCategories
    /\ batch = NoAlertBatch
    /\ reportEmails = <<>>

NextAlertBatch ==
    \/ StartAllBudgets
    \/ FindBudgetUsers
    \/ \E p \in Procs : CheckNextUser(p)
    \/ \E p \in Procs : FindUser(p)
    \/ \E p \in Procs : StatusFindUser(p)
    \/ \E p \in Procs : GetExpenses(p)
    \/ \E p \in Procs : Aggregate(p)
    \/ \E p \in Procs : SendEmail(p)
    \/ \E p \in Procs : UpdateLastAlertSent(p)
    \/ \E p \in Procs : SaveNotification(p)
    \/ \E p \in Procs : CollectResult(p)
    \/ EndDelay
    \/ Tick

SpecAlertBatch == InitAlertBatch /\ [][NextAlertBatch]_vars

\* requests that arrive while the budget check of another one is running
InitOverlap ==
    /\ now = StartTime
    /\ users = [u \in Users |-> UserDoc(100, DefaultThresholds, NoAlertSent, TRUE)]
    /\ transactions = <<>>
    /\ call = [p \in Procs |-> IdleCall]
    /\ overlap = TRUE
    /\ alertEmails = EmptyBag
    /\ notifications = [u \in Users |-> 0]
    /\ calcOut = NoOut
    /\ reportOut = NoOut
    /\ categories = StoredCategories
    /\ batch = NoBatch
    /\ reportEmails = <<>>

NextOverlap ==
    \/ Tick
    \/ \E p \in Procs :
           \E req \in {r \in Requests : r.userId = "u1" /\ r.amount = 85} :
               PostTransaction(p, req)
    \/ \E p \in Procs : FindUser(p)
    \/ \E p \in Procs : StatusFindUser(p)
    \/ \E p \in Procs : GetExpenses(p)
    \/ \E p \in Procs : Aggregate(p)
    \/ \E p \in Procs : SendEmail(p)
    \/ \E p \in Procs : UpdateLastAlertSent(p)
    \/ \E p \in Procs : SaveNotification(p)
    \/ \E p \in Procs : Finish(p)

SpecOverlap == InitOverlap /\ [][NextOverlap]_vars

----------------------------------------------------------------------------
(* Properties of the budget tracker *)

\* the status computed by an invocation, once it has one
Checked(c) == c.pc # "idle" /\ c.budgetStatus.budgetSet

\* number of alert e-mails of one type dispatched to one user on one day
EmailsOn(userId, alertType, day) ==
    LET S == {e \in BagToSet(alertEmails) :
                 e.to = userId /\ e.alertType = alertType /\ Day(e.at) = day}
    IN  BagCardinality([e \in S |-> alertEmails[e]])

\* C1: in every checkBudgetStatus result with budgetSet=true, shouldSendAlert
\* holds exactly when the level is warning or critical and the stored
\* timestamp of that level is absent or lies on another calendar day than the
\* check; alertType is the level when it holds and null otherwise
C1_ShouldSendAlertByCalendarDate ==
    \A p \in Procs :
        LET c == call[p]
            s == c.budgetStatus
        IN  Checked(c) =>
            LET stamps == c.statusUser.monthlyBudget.lastAlertSent
                fresh == \/ s.alertLevel \notin AlertTypes
                         \/ stamps[s.alertLevel] = <<>>
                         \/ Day(stamps[s.alertLevel][1]) # Day(c.statusNow)
            IN  /\ s.shouldSendAlert = (s.alertLevel \in AlertTypes /\ fresh)
                /\ s.alertType = IF s.shouldSendAlert THEN s.alertLevel ELSE "null"

\* C1 witness: an alert recorded at the last instant of a day and a check
\* less than a day later, on the next calendar day, which asks for an alert
C1_Witness ==
    \E p \in Procs :
        LET c == call[p]
            s == c.budgetStatus
        IN  /\ Checked(c)
            /\ s.alertLevel \in AlertTypes
            /\ c.statusUser.monthlyBudget.lastAlertSent[s.alertLevel] # <<>>
            /\ c.statusNow - c.statusUser.monthlyBudget.lastAlertSent[s.alertLevel][1]
                   < TicksPerDay
            /\ s.shouldSendAlert

\* C2: at most one alert e-mail of each type is dispatched to a user within
\* one calendar day, whatever the e-mail and storage collaborators answer
C2_AtMostOneAlertPerDay ==
    \A e \in BagToSet(alertEmails) : EmailsOn(e.to, e.alertType, Day(e.at)) <= 1

\* C3: after a failed e-mail dispatch the invocation has modified neither
\* timestamp, and a check on the same day with unchanged spending asks again
\* for an alert of the same type
C3_FailedDispatchKeepsAlertPending ==
    \A p \in Procs :
        LET c == call[p] IN
        (c.pc = "done" /\ c.result.reason = "emailFailed") =>
            /\ ~c.wrote
            /\ users[c.userId].monthlyBudget.lastAlertSent = c.lastAtStart
            /\ LET s == checkBudgetStatus(transactions, users[c.userId], c.userId, now)
               IN  (/\ Day(now) = Day(c.statusNow)
                    /\ s.budgetSet
                    /\ s.spent = c.budgetStatus.spent)
                   => (s.shouldSendAlert /\ s.alertType = c.budgetStatus.alertType)

\* C3 witness: a dispatch failed, and the day and the spending are unchanged
C3_Witness ==
    \E p \in Procs :
        LET c == call[p]
            s == checkBudgetStatus(transactions, users[c.userId], c.userId, now)
        IN  /\ c.pc = "done"
            /\ c.result.reason = "emailFailed"
            /\ Day(now) = Day(c.statusNow)
            /\ s.budgetSet
            /\ s.spent = c.budgetStatus.spent
            /\ s.alertType \in AlertTypes

\* C5: with a warning alert recorded on the day of the check and no critical
\* alert recorded on that day, a check that finds the critical level asks for
\* a critical alert
C5_ThresholdsDeduplicatedIndependently ==
    \A p \in Procs :
        LET c == call[p]
            s == c.budgetStatus
            stamps == c.statusUser.monthlyBudget.lastAlertSent
        IN  (/\ Checked(c)
             /\ s.alertLevel = "critical"
             /\ stamps.warning # <<>>
             /\ Day(stamps.warning[1]) = Day(c.statusNow)
             /\ (stamps.critical = <<>> \/ Day(stamps.critical[1]) # Day(c.statusNow)))
            => (s.shouldSendAlert /\ s.alertType = "critical")

\* C5 witness: the warning was sent today and the spending reached critical
C5_Witness ==
    \E p \in Procs :
        LET c == call[p]
            s == c.budgetStatus
            stamps == c.statusUser.monthlyBudget.lastAlertSent
        IN  /\ Checked(c)
            /\ s.alertLevel = "critical"
            /\ stamps.warning # <<>>
            /\ Day(stamps.warning[1]) = Day(c.statusNow)
            /\ stamps.critical = <<>>
            /\ EmailsOn(c.userId, "warning", Day(c.statusNow)) = 1

\* C6: for a user whose budget amount is 0, checkBudgetStatus answers
\* budgetSet=false without querying the transactions, and
\* checkAndSendBudgetAlert sends no e-mail and writes no timestamp
C6_NoBudgetNoQueryNoAlert ==
    \A u \in Users :
        users[u].monthlyBudget.amount = 0 =>
            /\ ~checkBudgetStatus(transactions, users[u], u, now).budgetSet
            /\ \A e \in BagToSet(alertEmails) : e.to # u
            /\ users[u].monthlyBudget.lastAlertSent = NoAlertSent
            /\ \A p \in Procs :
                   call[p].userId = u =>
                       /\ ~call[p].queried
                       /\ ~call[p].emailed
                       /\ ~call[p].wrote
                       /\ ~call[p].budgetStatus.budgetSet

\* C6 witness: the check of a user without budget who has expenses returned
C6_Witness ==
    \E p \in Procs :
        LET c == call[p] IN
        /\ c.pc = "done"
        /\ c.result.reason = "noBudget"
        /\ users[c.userId].monthlyBudget.amount = 0
        /\ \E i \in 1..Len(transactions) :
               transactions[i].userId = c.userId /\ transactions[i].type = "expense"

\* the result of a direct checkBudgetStatus call with budgetSet=true
StatusResult == calcOut.op = "checkBudgetStatus" /\ calcOut.result.budgetSet

\* C4: the level is critical whenever the percentage reaches the critical
\* threshold, warning when it lies between the warning and the critical
\* threshold, safe otherwise; the alertType is no other than that one level
C4_LevelFromHighestThreshold ==
    StatusResult =>
        LET s == calcOut.result
            atCritical == s.spent * 100 >= s.thresholds.critical * s.budget
            atWarning == s.spent * 100 >= s.thresholds.warning * s.budget
        IN  /\ atCritical => s.alertLevel = "critical"
            /\ (atWarning /\ ~atCritical) => s.alertLevel = "warning"
            /\ (~atWarning /\ ~atCritical) => s.alertLevel = "safe"
            /\ s.alertType \in {"null", s.alertLevel}

\* C4 witness: both thresholds are reached and the level is critical
C4_Witness ==
    /\ StatusResult
    /\ calcOut.result.spent * 100 >= calcOut.result.thresholds.critical * calcOut.result.budget
    /\ calcOut.result.spent * 100 >= calcOut.result.thresholds.warning * calcOut.result.budget
    /\ calcOut.result.thresholds.warning < calcOut.result.thresholds.critical
    /\ calcOut.result.alertLevel = "critical"
    /\ calcOut.result.alertType = "critical"

\* C7: percentageUsed (in hundredths) is spent/budget*100 rounded to two
\* decimals, i.e. within half a hundredth of the exact value, and remaining
\* is budget - spent floored at 0
C7_PercentageAndRemaining ==
    StatusResult =>
        LET s == calcOut.result
            diff == 2 * (s.spent * 10000 - s.percentageUsed * s.budget)
        IN  /\ s.budget > 0
            /\ diff <= s.budget
            /\ diff >= 0 - s.budget
            /\ s.remaining >= 0
            /\ s.remaining = IF s.budget - s.spent > 0 THEN s.budget - s.spent ELSE 0

\* C7 witness: overspent budget whose percentage needs rounding upwards
C7_Witness ==
    /\ StatusResult
    /\ calcOut.result.spent > calcOut.result.budget
    /\ calcOut.result.remaining = 0
    /\ calcOut.result.percentageUsed > 10000
    /\ calcOut.result.percentageUsed * calcOut.result.budget > calcOut.result.spent * 10000

\* the calendar month (1-12) and year a date lies in
InMonth(t, month, year) == getFullYear(t) = year /\ getMonth(t) + 1 = month

\* indexes of the stored expenses of a user dated in a month
ExpensesOf(userId, month, year) ==
    {i \in 1..Len(transactions) :
        /\ transactions[i].userId = userId
        /\ transactions[i].type = "expense"
        /\ InMonth(transactions[i].date, month, year)}

RECURSIVE SumOver(_)
SumOver(I) ==
    IF I = {} THEN 0
    ELSE LET i == CHOOSE j \in I : TRUE
         IN  transactions[i].amount + SumOver(I \ {i})

\* C8: getMonthlyExpenses(userId, month, year) returns the sum and the count
\* of exactly the user's stored expenses dated in that month
C8_MonthlyExpensesOfUserAndMonth ==
    (/\ calcOut.op = "getMonthlyExpenses"
     /\ calcOut.month \in 1..12
     /\ calcOut.year # 0) =>
        LET I == ExpensesOf(calcOut.userId, calcOut.month, calcOut.year)
        IN  /\ calcOut.result.totalExpenses = SumOver(I)
            /\ calcOut.result.transactionCount = Cardinality(I)

\* C8 witness: an expense at the last instant of the month is counted while
\* another stored transaction is not
C8_Witness ==
    /\ calcOut.op = "getMonthlyExpenses"
    /\ calcOut.month \in 1..12
    /\ calcOut.year # 0
    /\ calcOut.result.transactionCount = 1
    /\ calcOut.result.transactions[1].date = calcOut.result.period.endDate
    /\ \E i \in 1..Len(transactions) :
           /\ transactions[i].userId = calcOut.userId
           /\ transactions[i].type = "income"
           /\ InMonth(transactions[i].date, calcOut.month, calcOut.year)

----------------------------------------------------------------------------
(* Properties of the report aggregator *)

\* the calendar month before the one t lies in, as <<month (0-11), year>>
PreviousMonth(t) ==
    IF getMonth(t) = 0 THEN <<11, getFullYear(t) - 1>>
    ELSE <<getMonth(t) - 1, getFullYear(t)>>

\* C9: without targetDate the period of getUserReportData is the calendar
\* month preceding the current month, for every current date
C9_DefaultPeriodIsPreviousMonth ==
    (reportOut.op = "getUserReportData" /\ reportOut.targetDate = <<>>) =>
        LET prev == PreviousMonth(reportOut.at)
        IN  /\ reportOut.period.startDate = MakeDate(prev[2], prev[1], 1, 0)
            /\ getMonth(reportOut.period.endDate) = prev[1]
            /\ getFullYear(reportOut.period.endDate) = prev[2]

\* indexes of the stored transactions of a user dated in the month of t
TransactionsInMonthOf(userId, t) ==
    {i \in 1..Len(transactions) :
        /\ transactions[i].userId = userId
        /\ InMonth(transactions[i].date, getMonth(t) + 1, getFullYear(t))}

\* C10: getUserReportData counts every transaction of the user dated on any
\* day of the target month, the whole last day included, in transactionCount
\* and in the hasData decision
C10_WholeLastDayIncluded ==
    (reportOut.op = "getUserReportData" /\ reportOut.targetDate # <<>>) =>
        LET I == TransactionsInMonthOf(reportOut.userId, reportOut.targetDate[1])
        IN  /\ reportOut.result.hasData = (I # {})
            /\ reportOut.result.hasData => reportOut.result.transactionCount = Cardinality(I)

\* a finished direct getUserReportData call that found data
ReportResult == reportOut.op = "getUserReportData" /\ reportOut.result.hasData

\* indexes of the stored transactions of the reported user dated within the
\* period the call has used
ReportedTx ==
    {i \in 1..Len(transactions) :
        /\ transactions[i].userId = reportOut.userId
        /\ transactions[i].date >= reportOut.period.startDate
        /\ transactions[i].date <= reportOut.period.endDate}

ReportedOfType(type) == {i \in ReportedTx : transactions[i].type = type}

\* the name of the category of the reported user a transaction refers to,
\* 'Other' when the reference is absent or identifies no such category
ReferredCategory(t) ==
    LET C == {k \in 1..Len(categories) :
                 /\ categories[k].userId = reportOut.userId
                 /\ t.categoryId = <<categories[k]._id>>}
    IN  IF C = {} THEN "Other" ELSE categories[CHOOSE k \in C : TRUE].name

\* the category names the reported expenses refer to
ReferredNames == {ReferredCategory(transactions[i]) : i \in ReportedOfType("expense")}

SpendingUnder(name) ==
    SumOver({i \in ReportedOfType("expense") :
                ReferredCategory(transactions[i]) = name})

\* C11: every entry of topCategories carries the name of a category the
\* reported expenses refer to ('Other' for unresolved references) with the
\* sum of exactly the expenses referring to it, and with at most TopCount
\* such names every one of them is listed
C11_ExpensesUnderTheirCategory ==
    ReportResult =>
        LET top == reportOut.result.topCategories
        IN  /\ \A k \in 1..Len(top) :
                   /\ top[k][1] \in ReferredNames
                   /\ top[k][2] = SpendingUnder(top[k][1])
            /\ Cardinality(ReferredNames) <= TopCount =>
                   \A n \in ReferredNames : \E k \in 1..Len(top) : top[k][1] = n

\* the name the lookup of getUserReportData gives a reported transaction
LookupName(i) ==
    CategoryName(FindCategories(categories, reportOut.userId), transactions[i])

LookupNames == {LookupName(i) : i \in ReportedOfType("expense")}

\* the sum of the reported expenses accumulated under a name
LookupTotal(name) ==
    SumOver({i \in ReportedOfType("expense") : LookupName(i) = name})

RECURSIVE SumEntries(_)
SumEntries(entries) ==
    IF entries = <<>> THEN 0 ELSE Head(entries)[2] + SumEntries(Tail(entries))

C14_NetSavingsIsIncomeMinusExpenses ==
    ReportResult =>
        LET d == reportOut.result
        IN  /\ d.netSavings = d.totalIncome - d.totalExpenses
            /\ d.totalIncome = SumOver(ReportedOfType("income"))
            /\ d.totalExpenses = SumOver(ReportedOfType("expense"))
            /\ d.transactionCount = Cardinality(ReportedTx)

\* C14 witness: a deficit month made of one income and one larger expense
C14_Witness ==
    /\ ReportResult
    /\ reportOut.result.totalIncome > 0
    /\ reportOut.result.netSavings < 0
    /\ reportOut.result.transactionCount = 2

----------------------------------------------------------------------------
(* Properties of the report batch and the download route *)

\* the stored transactions of a user dated within a period
TxWithin(userId, period) ==
    {i \in 1..Len(transactions) :
        /\ transactions[i].userId = userId
        /\ transactions[i].date >= period.startDate
        /\ transactions[i].date <= period.endDate}

\* the period a run of generateMonthlyReports reports on
BatchPeriod == ReportPeriod(<<>>, now)

\* the report e-mails attempted for a user
AttemptsFor(userId) == {k \in 1..Len(reportEmails) : reportEmails[k].to = userId}

\* C13: for a user without transaction in the period getUserReportData
\* returns exactly {hasData: false}; the batch finishes that user's iteration
\* without failure and attempts no e-mail for the user, and the download
\* route produces no file and answers 404 unless a collaborator threw
C13_NoDataIsTerminal ==
    /\ \A k \in 1..Len(batch.log) :
           LET e == batch.log[k] IN
           TxWithin(e.user, BatchPeriod) = {} =>
               /\ e.reportData = [hasData |-> FALSE]
               /\ e.failure = "none"
               /\ e.fallback = "none"
    /\ \A u \in Users : TxWithin(u, BatchPeriod) = {} => AttemptsFor(u) = {}
    /\ (reportOut.op = "download" /\ TxWithin(reportOut.userId, reportOut.period) = {}) =>
           /\ reportOut.result = [hasData |-> FALSE]
           /\ reportOut.status # 200
           /\ ~reportOut.threw => reportOut.status = 404

\* C13 witness: the run skipped a selected user without data in January and
\* went on to send another user's report, and a download was answered 404
C13_Witness ==
    /\ batch.pc = "done"
    /\ \E k \in 1..Len(batch.log) :
           /\ TxWithin(batch.log[k].user, BatchPeriod) = {}
           /\ k < Len(batch.log)
           /\ AttemptsFor(batch.log[k + 1].user) # {}
    /\ reportOut.op = "download"
    /\ reportOut.status = 404

\* C15: an iteration in which rendering or delivery failed has attempted a
\* fallback e-mail without attachment for its user, and whatever the
\* fallback's outcome the loop has gone on to the next selected user
C15_FallbackAndContinue ==
    \A k \in 1..Len(batch.log) :
        LET e == batch.log[k] IN
        e.failure \in {"render", "send"} =>
            /\ e.fallback \in {"sent", "failed"}
            /\ \E j \in AttemptsFor(e.user) : ~reportEmails[j].attachment
            /\ k < Len(batch.selected) =>
                   \/ Len(batch.log) > k
                   \/ batch.user = batch.selected[k + 1]

\* C15 witness: delivery and fallback both failed for the first user and the
\* second user's report was delivered
C15_Witness ==
    /\ Len(batch.log) = 2
    /\ batch.log[1].failure = "send"
    /\ batch.log[1].fallback = "failed"
    /\ batch.log[2].failure = "none"
    /\ \E j \in AttemptsFor(batch.log[2].user) :
           reportEmails[j].attachment /\ reportEmails[j].delivered

\* C16: when a run of generateMonthlyReports is over, the iteration of
\* every selected user has been carried out, whatever failed for the others
C16_FailureCaughtWithinIteration ==
    batch.pc = "done" =>
        \A k \in 1..Len(batch.selected) :
            /\ k <= Len(batch.log)
            /\ batch.log[k].user = batch.selected[k]

\* the users that are opted into monthly reports
OptedIn(userId) == users[userId].settings.monthlyReports # <<FALSE>>

\* the report of the default period has data
HasReport(userId) ==
    getUserReportData(transactions, categories, userId, <<>>, now).hasData

\* C19: the users of the run are those whose monthlyReports setting is true
\* or absent; a report e-mail is attempted only for such a user whose report
\* has data, for every such user whose iteration was carried out, and a run
\* that was not aborted has carried out the iteration of every one of them
C19_ReportsForOptedInUsersWithData ==
    /\ \A k \in 1..Len(batch.selected) : OptedIn(batch.selected[k])
    /\ \A j \in 1..Len(reportEmails) :
           OptedIn(reportEmails[j].to) /\ HasReport(reportEmails[j].to)
    /\ \A k \in 1..Len(batch.log) :
           (AttemptsFor(batch.log[k].user) # {}) = HasReport(batch.log[k].user)
    /\ (batch.pc = "done" /\ ~batch.aborted) =>
           {batch.log[k].user : k \in 1..Len(batch.log)} = {u \in Users : OptedIn(u)}

\* C19 witness: a finished run in which a user without stored setting got a
\* report while a user with data who opted out got none
C19_Witness ==
    /\ batch.pc = "done"
    /\ ~batch.aborted
    /\ \E u, v \in Users :
           /\ users[u].settings.monthlyReports = <<>>
           /\ AttemptsFor(u) # {}
           /\ users[v].settings.monthlyReports = <<FALSE>>
           /\ HasReport(v)
           /\ AttemptsFor(v) = {}

----------------------------------------------------------------------------
(* Properties of the stored documents *)

\* C17: the stored alert thresholds of every user satisfy
\* 0 <= warning < critical <= 100
C17_ThresholdsOrdered ==
    \A u \in Users :
        LET th == users[u].monthlyBudget.alertThresholds
        IN  0 <= th.warning /\ th.warning < th.critical /\ th.critical <= 100

\* C18: every stored transaction has a positive amount and a type that is
\* 'income' or 'expense'
C18_StoredTransactionsValid ==
    \A i \in 1..Len(transactions) :
        /\ transactions[i].amount > 0
        /\ transactions[i].type \in {"income", "expense"}

----------------------------------------------------------------------------
(* Properties of overlapping budget checks *)

\* C20: an invocation that is about to read the user document for its
\* status is never held back, not even while another invocation for the same
\* user is between its read of lastAlertSent and its write
C20_ChecksNotMutuallyExcluded ==
    \A p \in Procs :
        call[p].pc = "statusFindUser" => ENABLED StatusFindUser(p)

\* C20 witness: two invocations for one user both read lastAlertSent before
\* either wrote it, both dispatched an alert of the same type on the same
\* day and both writes landed
C20_Witness ==
    \E p, q \in Procs :
        LET c == call[p]
            d == call[q]
        IN  /\ p # q
            /\ c.userId = d.userId
            /\ c.emailed /\ d.emailed
            /\ c.budgetStatus.alertType = d.budgetStatus.alertType
            /\ c.statusUser.monthlyBudget.lastAlertSent = NoAlertSent
            /\ d.statusUser.monthlyBudget.lastAlertSent = NoAlertSent
            /\ c.wrote /\ d.wrote
            /\ EmailsOn(c.userId, c.budgetStatus.alertType, Day(now)) = 2

----------------------------------------------------------------------------
(* Properties of the alert result and of the opt-out *)

\* C23: an invocation that has returned after its alert e-mail was
\* dispatched reports alertSent=true with the alert type of the e-mail
C23_DispatchedAlertIsReported ==
    \A p \in Procs :
        LET c == call[p] IN
        (c.pc = "done" /\ c.emailed) =>
            /\ c.result.alertSent
            /\ c.result.alertType = c.budgetStatus.alertType

\* C30: for a user whose budgetAlerts setting is off no alert e-mail is
\* dispatched, no lastAlertSent timestamp is written and no notification
\* record is created, and an invocation that has loaded the user returns
\* success=true with alertSent=false without looking at the spending
C30_DisabledAlertsAreSilent ==
    \A u \in Users :
        ~users[u].settings.budgetAlerts =>
            /\ \A e \in BagToSet(alertEmails) : e.to # u
            /\ users[u].monthlyBudget.lastAlertSent = NoAlertSent
            /\ notifications[u] = 0
            /\ \A p \in Procs :
                   LET c == call[p] IN
                   c.userId = u =>
                       /\ ~c.queried /\ ~c.emailed /\ ~c.wrote
                       /\ c.pc \in {"findUser", "done"}
                       /\ (c.pc = "done" /\ c.result.reason # "error") =>
                              /\ c.result.success
                              /\ ~c.result.alertSent
                              /\ c.result.reason = "disabled"

\* C30 witness: the check of a user with alerts off whose expenses of the
\* month have reached the warning threshold has returned
C30_Witness ==
    \E p \in Procs :
        LET c == call[p] IN
        /\ c.pc = "done"
        /\ c.result.reason = "disabled"
        /\ ~users[c.userId].settings.budgetAlerts
        /\ checkBudgetStatus(transactions, users[c.userId], c.userId, now).budgetSet
        /\ checkBudgetStatus(transactions, users[c.userId], c.userId, now).alertLevel
               \in AlertTypes

\* C29: in one run of generateMonthlyReports at most one report e-mail is
\* delivered to a user
C29_AtMostOneReportEmail ==
    \A u \in Users :
        Cardinality({k \in AttemptsFor(u) : reportEmails[k].delivered}) <= 1

\* C28: in a checkBudgetStatus result with a budget the alertLevel agrees
\* with the returned percentageUsed (in hundredths of a percent) and the
\* returned thresholds
C28_AlertLevelMatchesReportedPercentage ==
    StatusResult =>
        LET r == calcOut.result
            warning == r.thresholds.warning * 100
            critical == r.thresholds.critical * 100
        IN  /\ r.alertLevel = "critical" <=> r.percentageUsed >= critical
            /\ r.alertLevel = "warning" <=>
                   (warning <= r.percentageUsed /\ r.percentageUsed < critical)
            /\ r.alertLevel = "safe" <=> r.percentageUsed < warning

----------------------------------------------------------------------------
(* Properties of the transaction routes: isolation of the users *)

\* C27: while only user u1 issues create, update and delete requests, the
\* transactions owned by user u2 stay the ones u2 had at the start
C27_OtherUsersTransactionsUntouched ==
    LET Owned(t) == t.userId = "u2"
    IN  SelectSeq(transactions, Owned) \in {OthersTransactions, <<>>}

----------------------------------------------------------------------------
(* Properties of the single-user operations: effects and missing users *)

C26_MissingUserIsNotFound ==
    /\ \A p \in Procs :
           LET c == call[p] IN
           c.userId = MissingUser =>
               /\ ~c.emailed /\ ~c.wrote
               /\ c.pc = "done" /\ c.result.reason # "error" =>
                      c.result.reason = "User not found"
    /\ (/\ calcOut.op = "checkBudgetStatus"
        /\ calcOut.userId = MissingUser) => calcOut.result # NoBudget
    /\ (/\ calcOut.op = "getBudgetOverview"
        /\ calcOut.userId = MissingUser
        /\ calcOut.pc = "done"
        /\ ~calcOut.threw) => calcOut.result # NoBudget
    /\ (/\ calcOut.op = "getBudgetAlertSummary"
        /\ calcOut.userId = MissingUser
        /\ ~calcOut.threw) => calcOut.result # NoBudgetSummary

----------------------------------------------------------------------------
(* Properties of getBudgetOverview *)

\* getBudgetOverview has returned an overview of a user with a budget
OverviewResult ==
    /\ calcOut.op = "getBudgetOverview"
    /\ calcOut.pc = "done"
    /\ ~calcOut.threw
    /\ calcOut.result.budgetSet

RECURSIVE SumField(_, _)
\* the sum of one field over the entries of a breakdown
SumField(entries, field) ==
    IF entries = <<>> THEN 0
    ELSE Head(entries)[field] + SumField(Tail(entries), field)

\* C24: in a returned overview the amounts of the categoryBreakdown sum to
\* spent and its transaction counts sum to monthlyData.transactionCount
C24_BreakdownMatchesSpent ==
    OverviewResult =>
        LET r == calcOut.result IN
        /\ SumField(r.categoryBreakdown, "amount") = r.spent
        /\ SumField(r.categoryBreakdown, "transactionCount") =
               r.monthlyData.transactionCount

\* C25: in a returned overview the categoryBreakdown is ordered by
\* non-increasing amount and has at most one entry named 'Uncategorized'
C25_OneUncategorizedEntry ==
    OverviewResult =>
        LET b == calcOut.result.categoryBreakdown IN
        /\ \A i, j \in 1..Len(b) : i < j => b[i].amount >= b[j].amount
        /\ Cardinality({i \in 1..Len(b) : b[i].categoryName = "Uncategorized"}) <= 1

----------------------------------------------------------------------------
(* Properties of checkAllUserBudgets *)

\* the details entries that satisfy a condition on the result
DetailsWith(Cond(_)) ==
    Cardinality({i \in 1..Len(batch.results.details) :
                    Cond(batch.results.details[i].result)})

\* the returned summary agrees with the per-user results: one entry per
\* selected user, in the order of the selection, and counters that count
\* the entries
SummaryAgrees ==
    LET r == batch.results
        Sent(result) == result.alertSent
        Failed(result) == ~result.success
    IN  /\ r.totalUsers = Len(batch.selected)
        /\ Len(r.details) = r.totalUsers
        /\ \A i \in 1..Len(r.details) : r.details[i].userId = batch.selected[i]
        /\ r.alertsSent = r.warnings + r.critical
        /\ r.alertsSent = DetailsWith(Sent)
        /\ r.errors = DetailsWith(Failed)

\* C22: checkAllUserBudgets never ends by throwing, and the summary it
\* returns agrees with the per-user results
C22_AlwaysASummary ==
    /\ batch.pc # "thrown"
    /\ batch.pc = "returned" => SummaryAgrees

====
